---- MODULE Spec2Model ----
(***************************************************************************)
(* Combat and world-state engine of lost-mine-of-thenvoi:                  *)
(*   src/src/tools/world_state.py  (WorldStateManager)                     *)
(*   src/src/game/combat.py        (start_combat, advance_turn, ...)       *)
(*   src/src/game/models.py        (CharacterState, EnemyState, ...)       *)
(*   src/src/tools/dice.py         (roll_dice, check_hit, ...)             *)
(*   src/src/agents/*.py           (set_turn, should_respond, on_message)  *)
(*                                                                         *)
(* Display names are kept as sequences of code points, because the turn    *)
(* order is sorted on them with Python's string comparison.                *)
(***************************************************************************)
EXTENDS Integers, Sequences, FiniteSets, TLC

VARIABLES characters, enemies, combat, world, disk, responding, last, hist

vars == <<characters, enemies, combat, world, disk, responding, last, hist, responding>>

-----------------------------------------------------------------------------
(* Bounds of the model.                                                    *)

\* largest max_hp drawn for the entities of the HP specification
MaxHpDrawn == 2
\* HP deltas of the HP specification range over -MaxDelta..MaxDelta
MaxDelta == 3
\* longest party list handed to start_combat in its specification
MaxParty == 2
\* longest enemy list handed to start_combat in its specification
MaxEnemies == 1
\* the encounter specifications stop advancing turns after this round
MaxRound == 2

-----------------------------------------------------------------------------
(* Small helpers.                                                          *)

Max2(a, b) == IF a >= b THEN a ELSE b

Min2(a, b) == IF a <= b THEN a ELSE b

Range(s) == {s[i] : i \in 1..Len(s)}

\* an empty dict
EmptyMap == [x \in {} |-> 0]

\* dict[k] = v
Put(map, k, v) == [x \in DOMAIN map \cup {k} |-> IF x = k THEN v ELSE map[x]]

\* the dict restricted to the keys in S
Restrict(map, S) == [x \in DOMAIN map \cap S |-> map[x]]

Contains(s, x) == \E i \in 1..Len(s) : s[i] = x

CountOf(s, x) == Cardinality({i \in 1..Len(s) : s[i] = x})

\* list.remove(x): drops the first occurrence of x
RemoveFirst(s, x) ==
    LET i == CHOOSE k \in 1..Len(s) : s[k] = x /\ \A j \in 1..(k - 1) : s[j] # x
    IN  [k \in 1..(Len(s) - 1) |-> IF k < i THEN s[k] ELSE s[k + 1]]

\* Python's str comparison a < b, on sequences of code points
RECURSIVE StrLess(_, _)
StrLess(a, b) ==
    IF Len(b) = 0 THEN FALSE
    ELSE IF Len(a) = 0 THEN TRUE
    ELSE IF Head(a) # Head(b) THEN Head(a) < Head(b)
    ELSE StrLess(Tail(a), Tail(b))

\* all sequences over S of length 0..n, repetitions included
RECURSIVE AllSeqs(_, _)
AllSeqs(S, n) ==
    IF n = 0 THEN {<<>>}
    ELSE LET shorter == AllSeqs(S, n - 1)
         IN  shorter \cup {Append(s, x) : s \in shorter, x \in S}

-----------------------------------------------------------------------------
(* Display names (code points).                                            *)

NameVex == <<86, 101, 120>>
NameThokk == <<84, 104, 111, 107, 107>>
NameLira == <<76, 105, 114, 97>>
NameGoblin == <<71, 111, 98, 108, 105, 110>>
NameBugbear == <<66, 117, 103, 98, 101, 97, 114>>
NameWolf == <<87, 111, 108, 102>>

-----------------------------------------------------------------------------
(* models.py                                                               *)

\* CharacterStats.get_modifier: (value - 10) // 2 on the mapped field
GetModifier(stats, stat) ==
    LET full == CASE stat = "str" -> "strength"
                  [] stat = "dex" -> "dexterity"
                  [] stat = "wis" -> "wisdom"
                  [] OTHER -> stat
        value == IF full \in DOMAIN stats THEN stats[full] ELSE 10
    IN  (value - 10) \div 2

\* CharacterState.is_alive
CharIsAlive(c) == c.hp > 0

\* EnemyState.is_alive
EnemyIsAlive(e) == e.state = "alive" /\ e.hp > 0

-----------------------------------------------------------------------------
(* world_state.py                                                          *)

\* _create_default_state: the three party characters
DefaultCharacters ==
    [id \in {"human_player", "ai_fighter", "ai_cleric"} |->
        CASE id = "human_player" ->
               [name |-> NameVex, hp |-> 9, max_hp |-> 9, ac |-> 14,
                stats |-> [strength |-> 8, dexterity |-> 17, wisdom |-> 12],
                proficiency_bonus |-> 2, conditions |-> <<>>]
          [] id = "ai_fighter" ->
               [name |-> NameThokk, hp |-> 12, max_hp |-> 12, ac |-> 16,
                stats |-> [strength |-> 16, dexterity |-> 14, wisdom |-> 12],
                proficiency_bonus |-> 2, conditions |-> <<>>]
          [] OTHER ->
               [name |-> NameLira, hp |-> 10, max_hp |-> 10, ac |-> 16,
                stats |-> [strength |-> 14, dexterity |-> 10, wisdom |-> 16],
                proficiency_bonus |-> 2, conditions |-> <<>>]]

\* CombatState(): the field defaults
DefaultCombat ==
    [active |-> FALSE, round |-> 0, turn_order |-> <<>>,
     current_turn_index |-> 0, combatants |-> EmptyMap]

\* Python's None, apart from every identifier the model draws
NoneValue == "None"

\* TurnState(): the field defaults (turn_started_at, a clock reading, is
\* left out)
DefaultTurnState ==
    [active_agent |-> NoneValue, mode |-> "dm_control", addressed_agents |-> <<>>]

\* NarrativeProgress: the dedicated boolean fields
DedicatedFlags ==
    {"wagon_discovered", "horses_found_dead", "ambush_triggered", "goblins_defeated",
     "goblin_trail_found", "hideout_entered", "sildar_rescued", "klarg_defeated"}

\* the custom_flags attribute: a dict of flags, or the boolean an
\* assignment without validation has put in its place
FlagBag(items) == [is_dict |-> TRUE, items |-> items, value |-> FALSE]

NotABag(value) == [is_dict |-> FALSE, items |-> EmptyMap, value |-> value]

\* NarrativeProgress(): the field defaults
DefaultProgress ==
    [fields |-> [f \in DedicatedFlags |-> FALSE], custom_flags |-> FlagBag(EmptyMap)]

\* the WorldState fields that are neither characters, enemies nor combat
\* (game_id, npcs and session_notes are written by no operation modelled
\* and are left out)
DefaultWorld ==
    [current_chapter |-> 1, current_scene |-> "intro",
     narrative_progress |-> DefaultProgress, turn_state |-> DefaultTurnState]

\* _create_default_state
DefaultState ==
    [characters |-> DefaultCharacters, enemies |-> EmptyMap, combat |-> DefaultCombat,
     world |-> DefaultWorld]

\* json.dump(self._state.model_dump()): the fields, in the order WorldState
\* declares them
Document(chars, ens, cmb, w) ==
    << <<"current_chapter", w.current_chapter>>,
       <<"current_scene", w.current_scene>>,
       <<"narrative_progress", w.narrative_progress>>,
       <<"combat", cmb>>,
       <<"turn_state", w.turn_state>>,
       <<"characters", chars>>,
       <<"enemies", ens>> >>

\* the state file: absent, or a text that starts with an opening bracket,
\* holds some fields and may end with the closing bracket
NoFile == [exists |-> FALSE, open |-> "", body |-> <<>>, closed |-> FALSE]

\* what open(state_file, "w") leaves before anything is written
EmptyFile == [exists |-> TRUE, open |-> "", body |-> <<>>, closed |-> FALSE]

FileOf(body) == [exists |-> TRUE, open |-> "{", body |-> body, closed |-> TRUE]

\* data[key], or the field default when the document has no such key
FieldOr(body, key, default) ==
    IF \E i \in 1..Len(body) : body[i][1] = key
    THEN body[CHOOSE i \in 1..Len(body) : body[i][1] = key][2]
    ELSE default

\* WorldState.model_validate(data) on a JSON object
StateOfDocument(body) ==
    [characters |-> FieldOr(body, "characters", EmptyMap),
     enemies |-> FieldOr(body, "enemies", EmptyMap),
     combat |-> FieldOr(body, "combat", DefaultCombat),
     world |-> [current_chapter |-> FieldOr(body, "current_chapter", 1),
                current_scene |-> FieldOr(body, "current_scene", "intro"),
                narrative_progress |-> FieldOr(body, "narrative_progress", DefaultProgress),
                turn_state |-> FieldOr(body, "turn_state", DefaultTurnState)]]

\* load: the exception json.load or model_validate raises on the file
LoadError(f) ==
    IF ~(f.open \in {"{", "["} /\ f.closed) THEN "JSONDecodeError"
    ELSE IF f.open # "{" THEN "ValidationError"
    ELSE IF FieldOr(f.body, "current_chapter", 1) < 1 THEN "ValidationError"
    ELSE IF ~FieldOr(f.body, "narrative_progress", DefaultProgress).custom_flags.is_dict
         THEN "ValidationError"
    ELSE "none"

LoadCatchesDecodeErrorOnly(error) == error = "JSONDecodeError"

\* load: except (json.JSONDecodeError, ValueError); pydantic's
\* ValidationError is a ValueError
LoadCatches(error) == error \in {"JSONDecodeError", "ValidationError"}

\* load: the state the manager holds afterwards, whether the document is
\* written, and whether an exception leaves load
LoadOutcome(f) ==
    IF ~f.exists
    THEN [state |-> DefaultState, persisted |-> TRUE, raised |-> FALSE]
    ELSE IF LoadError(f) = "none"
    THEN [state |-> StateOfDocument(f.body), persisted |-> FALSE, raised |-> FALSE]
    ELSE [state |-> DefaultState, persisted |-> FALSE,
          raised |-> ~LoadCatches(LoadError(f))]

\* the state property: the first access loads, and load saves the default
\* world when there is no file; the in-memory variables of a manager that
\* has not loaded yet hold what load will return
Accessed(d) ==
    IF d.loaded THEN d
    ELSE [d EXCEPT !.loaded = TRUE,
                   !.file = IF d.file.exists THEN @
                            ELSE FileOf(Document(characters, enemies, combat, world))]

\* save: the whole document replaces the file
Saved(d, chars, ens, cmb, w) == [d EXCEPT !.file = FileOf(Document(chars, ens, cmb, w))]

AutoSavedAlways(d, chars, ens, cmb, w) == Saved(d, chars, ens, cmb, w)

\* _auto_save after the state was accessed: save when auto_save is enabled
AutoSaved(d, chars, ens, cmb, w) ==
    IF d.auto_save THEN Saved(d, chars, ens, cmb, w) ELSE d

\* a manager with auto_save enabled that has loaded the given state
DiskInSync(chars, ens, cmb, w) ==
    [auto_save |-> TRUE, loaded |-> TRUE, saving |-> FALSE,
     file |-> FileOf(Document(chars, ens, cmb, w))]

NewHpNoCeiling(hp, max_hp, delta) == Max2(0, hp + delta)

\* update_hp: new_hp = max(0, min(max_hp, hp + delta))
NewHp(hp, max_hp, delta) == Max2(0, Min2(max_hp, hp + delta))

ConditionsAfterHpNoWake(conditions, old_hp, new_hp) ==
    IF new_hp = 0 /\ old_hp > 0 /\ ~Contains(conditions, "unconscious")
    THEN Append(conditions, "unconscious")
    ELSE conditions

\* update_hp, character branch: the two condition updates, in order
ConditionsAfterHp(conditions, old_hp, new_hp) ==
    LET fallen == IF new_hp = 0 /\ old_hp > 0 /\ ~Contains(conditions, "unconscious")
                  THEN Append(conditions, "unconscious")
                  ELSE conditions
    IN  IF new_hp > 0 /\ Contains(fallen, "unconscious")
        THEN RemoveFirst(fallen, "unconscious")
        ELSE fallen

EnemyStateAfterHpRevives(state, old_hp, new_hp) ==
    IF new_hp = 0 /\ old_hp > 0 THEN "dead"
    ELSE IF new_hp > 0 THEN "alive" ELSE state

\* update_hp, enemy branch: state becomes "dead" on a >0 -> 0 transition
EnemyStateAfterHp(state, old_hp, new_hp) ==
    IF new_hp = 0 /\ old_hp > 0 THEN "dead" ELSE state

\* update_hp: characters are looked up first, then enemies
HpKnown(chars, ens, entity_id) ==
    entity_id \in DOMAIN chars \/ entity_id \in DOMAIN ens

\* update_hp: the characters mapping after the call
CharactersAfterHp(chars, entity_id, delta) ==
    IF entity_id \in DOMAIN chars
    THEN LET c == chars[entity_id]
             new_hp == NewHp(c.hp, c.max_hp, delta)
         IN  [chars EXCEPT ![entity_id] =
                 [c EXCEPT !.hp = new_hp,
                           !.conditions = ConditionsAfterHp(c.conditions, c.hp, new_hp)]]
    ELSE chars

\* update_hp: the enemies mapping after the call
EnemiesAfterHp(chars, ens, entity_id, delta) ==
    IF entity_id \notin DOMAIN chars /\ entity_id \in DOMAIN ens
    THEN LET e == ens[entity_id]
             new_hp == NewHp(e.hp, e.max_hp, delta)
         IN  [ens EXCEPT ![entity_id] =
                 [e EXCEPT !.hp = new_hp,
                           !.state = EnemyStateAfterHp(e.state, e.hp, new_hp)]]
    ELSE ens

\* update_hp: the value returned (the stored new hp)
HpReturned(chars, ens, entity_id, delta) ==
    IF entity_id \in DOMAIN chars
    THEN NewHp(chars[entity_id].hp, chars[entity_id].max_hp, delta)
    ELSE NewHp(ens[entity_id].hp, ens[entity_id].max_hp, delta)

HpSavesAlways(chars, ens, entity_id) == 1

\* update_hp: the number of _auto_save calls made (auto_save enabled); the
\* ValueError is raised without one
HpSaves(chars, ens, entity_id) == IF HpKnown(chars, ens, entity_id) THEN 1 ELSE 0

\* liveness of an id as combat.py reads it: the enemy lookup comes first
IsAliveIn(chars, ens, id) ==
    IF id \in DOMAIN ens THEN EnemyIsAlive(ens[id])
    ELSE IF id \in DOMAIN chars THEN CharIsAlive(chars[id])
    ELSE FALSE

-----------------------------------------------------------------------------
(* dice.py                                                                 *)

\* a dice notation "NdM+K" / "NdM-K" as parse_dice_notation reads it
Notation(n, m, k) == [num_dice |-> n, die_size |-> m, modifier |-> k]

RECURSIVE SumSeq(_)
SumSeq(s) == IF Len(s) = 0 THEN 0 ELSE Head(s) + SumSeq(Tail(s))

\* roll_dice: faces are the values the random source returns, in order.
\* kept_roll is <<>> for None and <<v>> for a value.
RollDice(notation, advantage, disadvantage, faces) ==
    LET is_d20 == notation.die_size = 20 /\ notation.num_dice = 1
        actual_advantage == advantage /\ is_d20 /\ ~disadvantage
        actual_disadvantage == disadvantage /\ is_d20 /\ ~advantage
        twice == actual_advantage \/ actual_disadvantage
        rolls == IF twice THEN <<faces[1], faces[2]>>
                 ELSE [i \in 1..notation.num_dice |-> faces[i]]
        kept_roll == IF actual_advantage THEN <<Max2(faces[1], faces[2])>>
                     ELSE IF actual_disadvantage THEN <<Min2(faces[1], faces[2])>>
                     ELSE <<>>
        base_total == IF twice THEN kept_roll[1] ELSE SumSeq(rolls)
        check_roll == IF kept_roll # <<>> THEN kept_roll[1] ELSE rolls[1]
    IN  [rolls |-> rolls,
         modifier |-> notation.modifier,
         total |-> base_total + notation.modifier,
         advantage_used |-> actual_advantage,
         disadvantage_used |-> actual_disadvantage,
         critical |-> is_d20 /\ check_roll = 20,
         fumble |-> is_d20 /\ check_roll = 1,
         kept_roll |-> kept_roll]

CheckHitIgnoresCritical(attack_total, target_ac, is_critical) == attack_total >= target_ac

\* check_hit
CheckHit(attack_total, target_ac, is_critical) ==
    IF is_critical THEN TRUE ELSE attack_total >= target_ac

\* roll_initiative: "1d20+mod" / "1d20mod", no advantage
RollInitiative(dex_modifier, face) ==
    RollDice(Notation(1, 20, dex_modifier), FALSE, FALSE, <<face>>)

\* roll_damage: a critical doubles the number of dice, the modifier is kept
RollDamage(notation, is_critical, faces) ==
    RollDice(IF is_critical
             THEN Notation(2 * notation.num_dice, notation.die_size, notation.modifier)
             ELSE notation,
             FALSE, FALSE, faces)

-----------------------------------------------------------------------------
(* combat.py: tables                                                       *)

\* WEAPONS
WeaponNames ==
    {"longsword", "shortsword", "shortbow", "mace", "scimitar", "dagger",
     "handaxe", "sacred_flame"}

WeaponDamage(weapon) ==
    CASE weapon = "longsword" -> Notation(1, 8, 0)
      [] weapon = "shortsword" -> Notation(1, 6, 0)
      [] weapon = "shortbow" -> Notation(1, 6, 0)
      [] weapon = "mace" -> Notation(1, 6, 0)
      [] weapon = "scimitar" -> Notation(1, 6, 0)
      [] weapon = "dagger" -> Notation(1, 4, 0)
      [] weapon = "handaxe" -> Notation(1, 6, 0)
      [] weapon = "sacred_flame" -> Notation(1, 8, 0)
      [] OTHER -> Notation(1, 6, 0)

WeaponAbility(weapon) ==
    CASE weapon \in {"longsword", "mace", "handaxe"} -> "str"
      [] weapon \in {"shortsword", "shortbow", "scimitar", "dagger"} -> "dex"
      [] weapon = "sacred_flame" -> "wis"
      [] OTHER -> "str"

\* ENEMY_STATS.get(enemy_type, ENEMY_STATS["goblin"])
EnemyTemplate(enemy_type) ==
    CASE enemy_type = "bugbear" ->
           [name |-> NameBugbear, hp |-> 27, ac |-> 16, attack_bonus |-> 4,
            damage |-> Notation(2, 8, 2)]
      [] enemy_type = "wolf" ->
           [name |-> NameWolf, hp |-> 11, ac |-> 13, attack_bonus |-> 4,
            damage |-> Notation(2, 4, 2)]
      [] OTHER ->
           [name |-> NameGoblin, hp |-> 7, ac |-> 15, attack_bonus |-> 4,
            damage |-> Notation(1, 6, 2)]

\* the first key of ENEMY_STATS that is a substring of the lower-cased id,
\* "" when there is none
ArchetypeInId(id) ==
    CASE id \in {"goblin_1", "goblin_2"} -> "goblin"
      [] id = "wolf_1" -> "wolf"
      [] OTHER -> ""

\* enemy_id.split('_')[-1], as code points
IdSuffix(id) ==
    CASE id \in {"goblin_1", "wolf_1"} -> <<49>>
      [] id = "goblin_2" -> <<50>>
      [] OTHER -> <<63>>

\* f"{template name} ({suffix})"
EnemyName(enemy_type, enemy_id) ==
    EnemyTemplate(enemy_type).name \o <<32, 40>> \o IdSuffix(enemy_id) \o <<41>>

\* the EnemyState start_combat creates
NewEnemy(enemy_type, enemy_id) ==
    [name |-> EnemyName(enemy_type, enemy_id),
     hp |-> EnemyTemplate(enemy_type).hp,
     max_hp |-> EnemyTemplate(enemy_type).hp,
     ac |-> EnemyTemplate(enemy_type).ac,
     state |-> "alive"]

-----------------------------------------------------------------------------
(* combat.py: start_combat                                                 *)

\* first loop: add_enemy for every enemy id, in order (a repeated id is
\* overwritten)
RECURSIVE EnemiesAfterStart(_, _, _)
EnemiesAfterStart(ens, enemy_ids, enemy_type) ==
    IF Len(enemy_ids) = 0 THEN ens
    ELSE EnemiesAfterStart(Put(ens, Head(enemy_ids), NewEnemy(enemy_type, Head(enemy_ids))),
                           Tail(enemy_ids), enemy_type)

\* second loop: party ids without a character are skipped
ResolvedParty(chars, party) == SelectSeq(party, LAMBDA id : id \in DOMAIN chars)

\* get_combatant_info(..., is_enemy=True) on the enemy just created;
\* initiative is rolled with dex_modifier=2
EnemyInfo(enemy_type, enemy_id, face) ==
    LET e == NewEnemy(enemy_type, enemy_id)
    IN  [id |-> enemy_id, name |-> e.name,
         initiative |-> RollInitiative(2, face).total,
         hp |-> e.hp, max_hp |-> e.max_hp, ac |-> e.ac,
         is_enemy |-> TRUE, conditions |-> <<>>]

\* get_combatant_info(..., is_enemy=False); initiative is rolled with the
\* character's dexterity modifier
CharInfo(chars, char_id, face) ==
    LET c == chars[char_id]
    IN  [id |-> char_id, name |-> c.name,
         initiative |-> RollInitiative(GetModifier(c.stats, "dex"), face).total,
         hp |-> c.hp, max_hp |-> c.max_hp, ac |-> c.ac,
         is_enemy |-> FALSE, conditions |-> c.conditions]

\* first loop: one combatant per enemy id, in order; faces are the d20
\* values in the order they are rolled
RECURSIVE EnemiesRolled(_, _, _)
EnemiesRolled(enemy_ids, enemy_type, faces) ==
    IF Len(enemy_ids) = 0 THEN <<>>
    ELSE <<EnemyInfo(enemy_type, Head(enemy_ids), Head(faces))>>
             \o EnemiesRolled(Tail(enemy_ids), enemy_type, Tail(faces))

\* second loop: one combatant per party id that names a character
RECURSIVE PartyRolled(_, _, _)
PartyRolled(chars, resolved, faces) ==
    IF Len(resolved) = 0 THEN <<>>
    ELSE <<CharInfo(chars, Head(resolved), Head(faces))>>
             \o PartyRolled(chars, Tail(resolved), Tail(faces))

\* the combatants list before sorting: enemies first, then the resolved party
CombatantsRolled(chars, party, enemy_ids, enemy_type, faces) ==
    EnemiesRolled(enemy_ids, enemy_type, SubSeq(faces, 1, Len(enemy_ids)))
        \o PartyRolled(chars, ResolvedParty(chars, party),
                       SubSeq(faces, Len(enemy_ids) + 1, Len(faces)))

\* number of d20 rolls start_combat makes
InitiativeRolls(chars, party, enemy_ids) == Len(enemy_ids) + Len(ResolvedParty(chars, party))

SortKeyLessIgnoringName(a, b) == a.initiative > b.initiative

\* key=lambda c: (-c.initiative, c.name): key(a) < key(b)
SortKeyLess(a, b) ==
    \/ -a.initiative < -b.initiative
    \/ a.initiative = b.initiative /\ StrLess(a.name, b.name)

\* list.sort is stable: x goes behind every element whose key is not greater
InsertSorted(sorted, x) ==
    LET p == Cardinality({i \in 1..Len(sorted) : ~SortKeyLess(x, sorted[i])})
    IN  SubSeq(sorted, 1, p) \o <<x>> \o SubSeq(sorted, p + 1, Len(sorted))

RECURSIVE SortCombatants(_)
SortCombatants(infos) ==
    IF Len(infos) = 0 THEN <<>>
    ELSE InsertSorted(SortCombatants(SubSeq(infos, 1, Len(infos) - 1)), infos[Len(infos)])

TurnOrderIdsEnemiesOnly(sorted) ==
    LET kept == SelectSeq(sorted, LAMBDA c : c.is_enemy)
    IN  [i \in 1..Len(kept) |-> kept[i].id]

\* [c.id for c in combatants]
TurnOrderIds(sorted) == [i \in 1..Len(sorted) |-> sorted[i].id]

\* the snapshot dict comprehension: a repeated id keeps its last entry
CombatantData(sorted) ==
    [id \in {sorted[i].id : i \in 1..Len(sorted)} |->
        LET k == CHOOSE i \in 1..Len(sorted) :
                    sorted[i].id = id /\ \A j \in (i + 1)..Len(sorted) : sorted[j].id # id
        IN  [initiative |-> sorted[k].initiative, hp |-> sorted[k].hp,
             max_hp |-> sorted[k].max_hp, ac |-> sorted[k].ac,
             is_enemy |-> sorted[k].is_enemy, conditions |-> sorted[k].conditions]]

StartedCombatRoundUnset(sorted) ==
    [active |-> TRUE, round |-> 0, turn_order |-> TurnOrderIds(sorted),
     current_turn_index |-> 0, combatants |-> CombatantData(sorted)]

\* the five set calls of a successful start
StartedCombat(sorted) ==
    [active |-> TRUE, round |-> 1, turn_order |-> TurnOrderIds(sorted),
     current_turn_index |-> 0, combatants |-> CombatantData(sorted)]

StartNeverFails(infos) == FALSE

\* "if not combatants": the failed start
StartFails(infos) == Len(infos) = 0

-----------------------------------------------------------------------------
(* combat.py: advance_turn                                                 *)

CombatantIsAliveInSnapshot(chars, ens, snapshot, id) ==
    id \in DOMAIN snapshot /\ snapshot[id].hp > 0

\* the liveness check of the walk: the entity in the store, never the snapshot
CombatantIsAlive(chars, ens, snapshot, id) == IsAliveIn(chars, ens, id)

RolloverAtZero(current_index, next_index, attempts) == next_index = 0

\* "Check for round rollover BEFORE processing this combatant"
Rollover(current_index, next_index, attempts) ==
    next_index = 0 /\ (current_index # 0 \/ attempts > 0)

\* the while loop; indices are 0-based as in the source
RECURSIVE Walk(_, _, _, _, _, _, _, _, _)
Walk(chars, ens, snapshot, turn_order, current_index, next_index, attempts, round, is_new_round) ==
    IF ~(attempts < Len(turn_order))
    THEN [next_index |-> next_index, attempts |-> attempts, round |-> round,
          is_new_round |-> is_new_round]
    ELSE LET rollover == Rollover(current_index, next_index, attempts)
             round1 == IF rollover THEN round + 1 ELSE round
             new1 == is_new_round \/ rollover
         IN  IF CombatantIsAlive(chars, ens, snapshot, turn_order[next_index + 1])
             THEN [next_index |-> next_index, attempts |-> attempts, round |-> round1,
                   is_new_round |-> new1]
             ELSE Walk(chars, ens, snapshot, turn_order, current_index,
                       (next_index + 1) % Len(turn_order), attempts + 1, round1, new1)

WalkExhaustedOffByOne(attempts, n) == attempts >= n - 1

\* "if attempts >= len(turn_order)": nobody alive was found
WalkExhausted(attempts, n) == attempts >= n

CombatAfterAdvanceResnapshot(cmb, w) ==
    [cmb EXCEPT !.current_turn_index = w.next_index, !.round = w.round,
                !.combatants = Restrict(@, {cmb.turn_order[w.next_index + 1]})]

CombatAfterAdvanceKeepsIndex(cmb, w) == [cmb EXCEPT !.round = w.round]

\* "Update state": the two set calls of a successful advance
CombatAfterAdvance(cmb, w) ==
    [cmb EXCEPT !.current_turn_index = w.next_index, !.round = w.round]

\* the two early returns
AdvanceRefused(cmb) == ~cmb.active \/ Len(cmb.turn_order) = 0

AdvanceWalkFromCurrent(chars, ens, cmb) ==
    Walk(chars, ens, cmb.combatants, cmb.turn_order, cmb.current_turn_index,
         cmb.current_turn_index % Len(cmb.turn_order), 0,
         IF cmb.round = 0 THEN 1 ELSE cmb.round, FALSE)

\* the result of the walk from the stored index and round ("or 1" on round)
AdvanceWalk(chars, ens, cmb) ==
    Walk(chars, ens, cmb.combatants, cmb.turn_order, cmb.current_turn_index,
         (cmb.current_turn_index + 1) % Len(cmb.turn_order), 0,
         IF cmb.round = 0 THEN 1 ELSE cmb.round, FALSE)

-----------------------------------------------------------------------------
(* combat.py: check_combat_end, end_combat                                 *)

AllEnemiesDeadOrNone(ens) == \A id \in DOMAIN ens : ~EnemyIsAlive(ens[id])

\* all(not e.is_alive ...) if enemies else True, and the "and enemies" test
EnemiesDefeated(ens) ==
    (IF DOMAIN ens # {} THEN \A id \in DOMAIN ens : ~EnemyIsAlive(ens[id]) ELSE TRUE)
    /\ DOMAIN ens # {}

\* all(not c.is_alive ...) if characters else False
AllPartyDown(chars) ==
    IF DOMAIN chars # {} THEN \A id \in DOMAIN chars : ~CharIsAlive(chars[id]) ELSE FALSE

EnemiesAfterEndKeepsAll(ens) == ens

\* end_combat: remove_enemy for every enemy whose is_alive is false
EnemiesAfterEnd(ens) == Restrict(ens, {id \in DOMAIN ens : EnemyIsAlive(ens[id])})

\* check_combat_end: the reason returned, "none" for no result
CombatEndReason(cmb, chars, ens) ==
    IF ~cmb.active THEN "none"
    ELSE IF EnemiesDefeated(ens) THEN "enemies_defeated"
    ELSE IF AllPartyDown(chars) THEN "party_defeated"
    ELSE "none"

-----------------------------------------------------------------------------
(* combat.py: resolve_attack                                               *)

\* get_attack_bonus
GetAttackBonus(chars, ens, attacker_id, weapon) ==
    IF attacker_id \in DOMAIN ens
    THEN IF ArchetypeInId(attacker_id) # ""
         THEN EnemyTemplate(ArchetypeInId(attacker_id)).attack_bonus
         ELSE 4
    ELSE IF attacker_id \in DOMAIN chars
    THEN GetModifier(chars[attacker_id].stats, WeaponAbility(weapon))
             + chars[attacker_id].proficiency_bonus
    ELSE 0

\* get_damage_dice: the notation built, as roll_dice parses it again
GetDamageDice(chars, ens, attacker_id, weapon) ==
    IF attacker_id \in DOMAIN ens
    THEN IF ArchetypeInId(attacker_id) # ""
         THEN EnemyTemplate(ArchetypeInId(attacker_id)).damage
         ELSE Notation(1, 6, 2)
    ELSE IF attacker_id \in DOMAIN chars
    THEN LET base == WeaponDamage(weapon)
         IN  Notation(base.num_dice, base.die_size,
                      GetModifier(chars[attacker_id].stats, WeaponAbility(weapon)))
    ELSE Notation(1, 6, 0)

DicePortionWithModifier(notation) == notation

\* damage_notation.split("+")[0].split("-")[0]: the dice without the modifier
DicePortion(notation) == Notation(notation.num_dice, notation.die_size, 0)

\* resolve_attack up to the call of update_hp.  d20 holds the two values the
\* random source would give to the attack roll, dmg and crit those of the
\* damage roll and of the critical re-roll.  attack_roll is <<>> for None.
AttackOutcome(chars, ens, attacker_id, target_id, weapon, advantage, disadvantage, d20, dmg, crit) ==
    LET target_ac == IF target_id \in DOMAIN chars THEN chars[target_id].ac
                     ELSE IF target_id \in DOMAIN ens THEN ens[target_id].ac
                     ELSE 10
        target_hp_before == IF target_id \in DOMAIN chars THEN chars[target_id].hp
                            ELSE IF target_id \in DOMAIN ens THEN ens[target_id].hp
                            ELSE 0
        attack_bonus == GetAttackBonus(chars, ens, attacker_id, weapon)
        attack_result == RollDice(Notation(1, 20, attack_bonus), advantage, disadvantage, d20)
        attack_roll == IF ~(advantage \/ disadvantage) THEN <<attack_result.rolls[1]>>
                       ELSE attack_result.kept_roll
        hit == CheckHit(attack_result.total, target_ac, attack_result.critical)
        damage_notation == GetDamageDice(chars, ens, attacker_id, weapon)
        first == RollDice(damage_notation, FALSE, FALSE, dmg).total
        bonus == RollDice(DicePortion(damage_notation), FALSE, FALSE, crit).total
        damage == IF ~hit THEN 0
                  ELSE IF attack_result.critical THEN first + bonus
                  ELSE first
    IN  [attack_roll |-> attack_roll,
         attack_total |-> attack_result.total,
         target_ac |-> target_ac,
         hit |-> hit,
         critical |-> attack_result.critical,
         fumble |-> attack_result.fumble,
         damage |-> damage,
         target_hp_before |-> target_hp_before,
         dice |-> damage_notation]

AppliedDeltaUnsigned(damage) == damage

\* update_hp(target_id, -damage): the delta a hit applies
AppliedDelta(damage) == -damage

\* the die values handed to one roll fit the dice rolled
FacesFit(notation, faces) ==
    /\ Len(faces) >= notation.num_dice
    /\ \A i \in 1..notation.num_dice : faces[i] \in 1..notation.die_size

-----------------------------------------------------------------------------
(* History kept for the properties (not program state).                    *)
(*   killed     ids of the turn order whose liveness went from true to     *)
(*              false by an HP change since the encounter started          *)
(*   advances   advance_turn calls since start_combat, while every         *)
(*              combatant was alive at the start and no HP changed; -1     *)
(*              once that no longer holds                                  *)
(*   new_rounds how many of those calls returned is_new_round              *)
(*   healthy    characters that started with hp > 0 and not unconscious    *)
(*   turns      the arguments of the latest set_turn call, if any           *)

HistInit(chars) ==
    [killed |-> {}, advances |-> -1, new_rounds |-> 0, turns |-> <<>>,
     healthy |-> {id \in DOMAIN chars :
                    chars[id].hp > 0 /\ ~Contains(chars[id].conditions, "unconscious")}]

HistAfterHp(chars1, ens1) ==
    LET changed == chars1 # characters \/ ens1 # enemies
        fell == IF combat.active
                THEN {id \in Range(combat.turn_order) :
                        IsAliveIn(characters, enemies, id) /\ ~IsAliveIn(chars1, ens1, id)}
                ELSE {}
    IN  [hist EXCEPT !.killed = @ \cup fell,
                     !.advances = IF changed THEN -1 ELSE @,
                     !.new_rounds = IF changed THEN 0 ELSE @]

-----------------------------------------------------------------------------
(* Operations.                                                             *)

\* WorldStateManager.update_hp
UpdateHp(entity_id, delta) ==
    IF HpKnown(characters, enemies, entity_id)
    THEN /\ characters' = CharactersAfterHp(characters, entity_id, delta)
         /\ enemies' = EnemiesAfterHp(characters, enemies, entity_id, delta)
         /\ last' = [op |-> "update_hp", id |-> entity_id, delta |-> delta, ok |-> TRUE,
                     old_hp |-> IF entity_id \in DOMAIN characters
                                THEN characters[entity_id].hp ELSE enemies[entity_id].hp,
                     value |-> HpReturned(characters, enemies, entity_id, delta),
                     saves |-> HpSaves(characters, enemies, entity_id)]
         /\ UNCHANGED responding
         /\ hist' = HistAfterHp(characters', enemies')
         /\ UNCHANGED <<combat, world>>
         /\ disk' = AutoSaved(Accessed(disk), characters', enemies', combat', world')
    ELSE /\ last' = [op |-> "update_hp", id |-> entity_id, delta |-> delta, ok |-> FALSE,
                     old_hp |-> 0, value |-> 0,
                     saves |-> HpSaves(characters, enemies, entity_id)]
         /\ UNCHANGED <<characters, enemies, combat, world, hist, responding>>
         /\ disk' = Accessed(disk)

\* start_combat
StartCombat(party, enemy_ids, enemy_type, faces) ==
    LET infos == CombatantsRolled(characters, party, enemy_ids, enemy_type, faces)
        sorted == SortCombatants(infos)
        ens1 == EnemiesAfterStart(enemies, enemy_ids, enemy_type)
    IN  IF StartFails(infos)
        THEN /\ last' = [op |-> "start_combat", party |-> party, enemy_ids |-> enemy_ids,
                         enemy_type |-> enemy_type, faces |-> faces,
                         ok |-> FALSE, error |-> "No valid combatants found",
                         turn_order |-> <<>>]
             /\ enemies' = ens1
             /\ UNCHANGED <<characters, combat, world, hist, responding>>
             /\ disk' = IF enemy_ids # <<>>
                        THEN AutoSaved(Accessed(disk), characters', enemies', combat', world')
                        ELSE Accessed(disk)
        ELSE /\ enemies' = ens1
             /\ combat' = StartedCombat(sorted)
             /\ last' = [op |-> "start_combat", party |-> party, enemy_ids |-> enemy_ids,
                         enemy_type |-> enemy_type, faces |-> faces,
                         ok |-> TRUE, error |-> "", turn_order |-> sorted]
             /\ UNCHANGED responding
             /\ hist' = [hist EXCEPT
                           !.killed = {},
                           !.advances = IF \A i \in 1..Len(sorted) :
                                               IsAliveIn(characters, ens1, sorted[i].id)
                                        THEN 0 ELSE -1,
                           !.new_rounds = 0]
             /\ UNCHANGED <<characters, world>>
             /\ disk' = AutoSaved(Accessed(disk), characters', enemies', combat', world')

\* advance_turn
AdvanceTurn ==
    LET refused == [op |-> "advance_turn", ok |-> FALSE, id |-> "", round |-> 0,
                    is_new_round |-> FALSE, attempts |-> 0]
    IN  IF AdvanceRefused(combat)
        THEN /\ last' = refused
             /\ UNCHANGED <<characters, enemies, combat, world, hist, responding>>
             /\ disk' = Accessed(disk)
        ELSE LET w == AdvanceWalk(characters, enemies, combat)
             IN  IF WalkExhausted(w.attempts, Len(combat.turn_order))
                 THEN /\ last' = refused
                      /\ UNCHANGED <<characters, enemies, combat, world, hist, responding>>
                      /\ disk' = Accessed(disk)
                 ELSE /\ combat' = CombatAfterAdvance(combat, w)
                      /\ last' = [op |-> "advance_turn", ok |-> TRUE,
                                  id |-> combat.turn_order[w.next_index + 1],
                                  round |-> w.round, is_new_round |-> w.is_new_round,
                                  attempts |-> w.attempts]
                      /\ UNCHANGED responding
                      /\ hist' = IF hist.advances >= 0 /\ hist.advances < Len(combat.turn_order)
                                 THEN [hist EXCEPT
                                         !.advances = @ + 1,
                                         !.new_rounds = IF w.is_new_round THEN @ + 1 ELSE @]
                                 ELSE [hist EXCEPT !.advances = -1, !.new_rounds = 0]
                      /\ UNCHANGED <<characters, enemies, world>>
                      /\ disk' = AutoSaved(Accessed(disk), characters', enemies', combat', world')

\* resolve_attack; a hit on an id update_hp does not know raises ValueError
\* (ok = FALSE: no AttackResult is returned)
ResolveAttack(attacker_id, target_id, weapon, advantage, disadvantage, d20, dmg, crit) ==
    LET o == AttackOutcome(characters, enemies, attacker_id, target_id, weapon,
                           advantage, disadvantage, d20, dmg, crit)
        call == [op |-> "resolve_attack", attacker |-> attacker_id, target |-> target_id,
                 weapon |-> weapon, advantage |-> advantage, disadvantage |-> disadvantage,
                 d20 |-> d20, dmg |-> dmg, crit |-> crit, result |-> o]
    IN  /\ \A i \in 1..2 : d20[i] \in 1..20
        /\ FacesFit(o.dice, dmg)
        /\ FacesFit(o.dice, crit)
        /\ IF o.hit /\ ~HpKnown(characters, enemies, target_id)
           THEN /\ last' = call @@ [ok |-> FALSE, target_hp_after |-> 0,
                                    target_defeated |-> FALSE]
                /\ UNCHANGED <<characters, enemies, combat, world, hist, responding>>
                /\ disk' = Accessed(disk)
           ELSE /\ characters' = IF o.hit
                                 THEN CharactersAfterHp(characters, target_id,
                                                        AppliedDelta(o.damage))
                                 ELSE characters
                /\ enemies' = IF o.hit
                              THEN EnemiesAfterHp(characters, enemies, target_id,
                                                  AppliedDelta(o.damage))
                              ELSE enemies
                /\ LET after == IF o.hit
                                THEN HpReturned(characters, enemies, target_id,
                                                AppliedDelta(o.damage))
                                ELSE o.target_hp_before
                   IN  last' = call @@ [ok |-> TRUE, target_hp_after |-> after,
                                       target_defeated |-> o.hit /\ after = 0]
                /\ UNCHANGED responding
                /\ hist' = HistAfterHp(characters', enemies')
                /\ UNCHANGED <<combat, world>>
                /\ disk' = IF o.hit
                           THEN AutoSaved(Accessed(disk), characters', enemies', combat',
                                          world')
                           ELSE Accessed(disk)

\* check_combat_end
CheckCombatEnd ==
    /\ last' = [op |-> "check_combat_end",
                reason |-> CombatEndReason(combat, characters, enemies)]
    /\ UNCHANGED <<characters, enemies, combat, world, hist, responding>>
    /\ disk' = Accessed(disk)

\* end_combat
EndCombat(reason) ==
    /\ combat' = [active |-> FALSE, round |-> 0, turn_order |-> <<>>,
                  current_turn_index |-> 0, combatants |-> EmptyMap]
    /\ enemies' = EnemiesAfterEnd(enemies)
    /\ last' = [op |-> "end_combat", reason |-> reason,
                removed |-> DOMAIN enemies \ DOMAIN EnemiesAfterEnd(enemies)]
    /\ UNCHANGED responding
    /\ hist' = [hist EXCEPT !.killed = {}, !.advances = -1, !.new_rounds = 0]
    /\ UNCHANGED <<characters, world>>
    /\ disk' = AutoSaved(Accessed(disk), characters', enemies', combat', world')

\* WorldStateManager.set("enemies.<id>.state", value); a path that does not
\* resolve is logged and nothing is set
SetEnemyState(enemy_id, value) ==
    /\ enemies' = IF enemy_id \in DOMAIN enemies
                  THEN [enemies EXCEPT ![enemy_id].state = value]
                  ELSE enemies
    /\ last' = [op |-> "set", path |-> "enemies.<id>.state", id |-> enemy_id,
                value |-> value]
    /\ UNCHANGED responding
    /\ hist' = [hist EXCEPT !.advances = -1, !.new_rounds = 0]
    /\ UNCHANGED <<characters, combat, world>>
    /\ disk' = IF enemy_id \in DOMAIN enemies
               THEN AutoSaved(Accessed(disk), characters', enemies', combat', world')
               ELSE Accessed(disk)

\* WorldStateManager.set("combat.active", value)
SetCombatActive(value) ==
    /\ combat' = [combat EXCEPT !.active = value]
    /\ last' = [op |-> "set", path |-> "combat.active", value |-> value]
    /\ UNCHANGED responding
    /\ hist' = [hist EXCEPT !.killed = {}, !.advances = -1, !.new_rounds = 0]
    /\ UNCHANGED <<characters, enemies, world>>
    /\ disk' = AutoSaved(Accessed(disk), characters', enemies', combat', world')

-----------------------------------------------------------------------------
(* Whose turn it is: combat.py (get_current_combatant) and models.py       *)
(* (CombatState.get_current_combatant).                                    *)

GetCurrentCombatantIgnoresActive(cmb) ==
    IF Len(cmb.turn_order) = 0 THEN NoneValue
    ELSE cmb.turn_order[(cmb.current_turn_index % Len(cmb.turn_order)) + 1]

\* combat.py get_current_combatant: three reads through manager.get and
\* the two early returns ("or []" and "or 0" leave a list and an integer
\* as they are)
GetCurrentCombatant(cmb) ==
    IF ~cmb.active THEN NoneValue
    ELSE LET turn_order == cmb.turn_order
             current_index == cmb.current_turn_index
         IN  IF Len(turn_order) = 0 THEN NoneValue
             ELSE turn_order[(current_index % Len(turn_order)) + 1]

\* CombatState.get_current_combatant
CombatStateGetCurrentCombatant(cmb) ==
    IF ~cmb.active \/ Len(cmb.turn_order) = 0 THEN NoneValue
    ELSE cmb.turn_order[(cmb.current_turn_index % Len(cmb.turn_order)) + 1]

\* a call of get_current_combatant(state_manager): the reads go through
\* the state property
GetCurrentCombatantQuery ==
    /\ last' = [op |-> "get_current_combatant", level |-> "engine",
                result |-> GetCurrentCombatant(combat)]
    /\ UNCHANGED <<characters, enemies, combat, world, hist, responding>>
    /\ disk' = Accessed(disk)

\* a call of state_manager.state.combat.get_current_combatant()
CombatStateQuery ==
    /\ last' = [op |-> "get_current_combatant", level |-> "model",
                result |-> CombatStateGetCurrentCombatant(combat)]
    /\ UNCHANGED <<characters, enemies, combat, world, hist, responding>>
    /\ disk' = Accessed(disk)

-----------------------------------------------------------------------------
(* The turn gate: models.py (TurnState), dm_agent.py (set_turn),           *)
(* player_agent.py and npc_agent.py (should_respond).                      *)

\* TurnState.is_human_turn
IsHumanTurnNever(ts) == FALSE

IsHumanTurn(ts) == ts.active_agent = "human"

IsAgentTurnIgnoresMode(ts, agent_id) ==
    ts.active_agent = agent_id \/ Contains(ts.addressed_agents, agent_id)

IsAgentTurnAddressedUnlessDmControl(ts, agent_id) ==
    \/ ts.active_agent = agent_id
    \/ (ts.mode # "dm_control" /\ Contains(ts.addressed_agents, agent_id))

\* TurnState.is_agent_turn
IsAgentTurn(ts, agent_id) ==
    \/ ts.active_agent = agent_id
    \/ (ts.mode = "free_form" /\ Contains(ts.addressed_agents, agent_id))

\* KNOWN_AGENT_NAMES
KnownAgentNames == {"thokk", "lira", "vex", "gundren", "sildar", "klarg", "npc"}

\* an incoming message, as the gate reads it: the lower-cased target of its
\* first [TURN:x] tag (NoneValue without a tag) and the known agent names
\* its text contains; msg = None is present = FALSE
NoMessage == [present |-> FALSE, turn_tag |-> NoneValue, mentioned |-> {}]

\* _count_agent_mentions
CountAgentMentions(msg) == Cardinality(msg.mentioned \cap KnownAgentNames)

\* AIPlayerAdapter.should_respond
PlayerShouldRespond(agent_id, ts, msg) ==
    IF msg.present /\ CountAgentMentions(msg) > 1 THEN FALSE
    ELSE IF IsHumanTurn(ts) THEN FALSE
    ELSE IsAgentTurn(ts, agent_id)

\* NPCAdapter.AGENT_ID
NpcAgentId == "npc"

\* NPCAdapter.should_respond
NpcShouldRespond(ts, msg) ==
    IF msg.present /\ msg.turn_tag # NoneValue THEN msg.turn_tag = NpcAgentId
    ELSE IF msg.present /\ CountAgentMentions(msg) > 1 THEN FALSE
    ELSE IF IsHumanTurn(ts) THEN FALSE
    ELSE IsAgentTurn(ts, NpcAgentId)

\* input_args.get(key, default) on the set_turn tool input: given holds
\* the keys the caller supplied
ArgOr(input_args, key, default) ==
    IF key \in input_args.given THEN input_args[key] ELSE default

TurnStateAfterSetKeepsOmitted(ts, input_args) ==
    [active_agent |-> ArgOr(input_args, "active_agent", ts.active_agent),
     mode |-> ArgOr(input_args, "mode", ts.mode),
     addressed_agents |-> ArgOr(input_args, "addressed", ts.addressed_agents)]

\* _execute_set_turn: the three assignments
TurnStateAfterSet(ts, input_args) ==
    [active_agent |-> ArgOr(input_args, "active_agent", NoneValue),
     mode |-> ArgOr(input_args, "mode", "dm_control"),
     addressed_agents |-> ArgOr(input_args, "addressed", <<>>)]

\* DMAdapter._execute_set_turn: a plain function without an await, so no
\* other handler of the event loop runs between its assignments; it ends
\* with save(), whatever auto_save is
SetTurn(input_args) ==
    /\ world' = [world EXCEPT !.turn_state = TurnStateAfterSet(@, input_args)]
    /\ last' = [op |-> "set_turn", input_args |-> input_args,
                message |-> IF world'.turn_state.active_agent # NoneValue
                            THEN "active_agent"
                            ELSE IF world'.turn_state.mode = "free_form"
                                    /\ world'.turn_state.addressed_agents # <<>>
                                 THEN "free_form"
                                 ELSE "DM control mode (no agent will respond)"]
    /\ UNCHANGED responding
    /\ hist' = [hist EXCEPT !.turns = <<input_args>>]
    /\ UNCHANGED <<characters, enemies, combat>>
    /\ disk' = Saved(Accessed(disk), characters', enemies', combat', world')

\* TurnState.is_agent_turn, asked about the stored turn state
IsAgentTurnQuery(agent_id) ==
    /\ last' = [op |-> "is_agent_turn", agent |-> agent_id, turn_state |-> world.turn_state,
                result |-> IsAgentTurn(world.turn_state, agent_id)]
    /\ UNCHANGED <<characters, enemies, combat, world, hist, responding>>
    /\ disk' = Accessed(disk)

\* AIPlayerAdapter.on_message: the gate (_get_turn_state, should_respond)
PlayerGate(agent_id, msg) ==
    /\ last' = [op |-> "should_respond", adapter |-> "player", agent |-> agent_id,
                msg |-> msg, turn_state |-> world.turn_state,
                result |-> PlayerShouldRespond(agent_id, world.turn_state, msg)]
    /\ UNCHANGED <<characters, enemies, combat, world, hist, responding>>
    /\ disk' = Accessed(disk)

\* NPCAdapter.on_message: the gate (_get_turn_state, should_respond)
NpcGate(msg) ==
    /\ last' = [op |-> "should_respond", adapter |-> "npc", agent |-> NpcAgentId,
                msg |-> msg, turn_state |-> world.turn_state,
                result |-> NpcShouldRespond(world.turn_state, msg)]
    /\ UNCHANGED <<characters, enemies, combat, world, hist, responding>>
    /\ disk' = Accessed(disk)

\* AIPlayerAdapter.on_message up to the first await of the tool loop: the
\* turn state is read once and should_respond decides; a handler that
\* passes stays in the loop, awaiting the LLM and its tools, until
\* ResponseDone, and never reads the turn state again
PlayerOnMessage(agent_id, msg) ==
    LET passed == PlayerShouldRespond(agent_id, world.turn_state, msg)
    IN  /\ agent_id \notin responding
        /\ responding' = IF passed THEN responding \cup {agent_id} ELSE responding
        /\ last' = [op |-> "on_message", agent |-> agent_id, msg |-> msg,
                    passed |-> passed]
        /\ UNCHANGED <<characters, enemies, combat, world, hist>>
        /\ disk' = Accessed(disk)

\* NPCAdapter.on_message up to the first await of the tool loop
NpcOnMessage(msg) ==
    LET passed == NpcShouldRespond(world.turn_state, msg)
    IN  /\ NpcAgentId \notin responding
        /\ responding' = IF passed THEN responding \cup {NpcAgentId} ELSE responding
        /\ last' = [op |-> "on_message", agent |-> NpcAgentId, msg |-> msg,
                    passed |-> passed]
        /\ UNCHANGED <<characters, enemies, combat, world, hist>>
        /\ disk' = Accessed(disk)

\* on_message: the tool loop ends (stop_reason is not tool_use) and the
\* handler returns
ResponseDone(agent_id) ==
    /\ agent_id \in responding
    /\ responding' = responding \ {agent_id}
    /\ last' = [op |-> "response_done", agent |-> agent_id]
    /\ UNCHANGED <<characters, enemies, combat, world, disk, hist>>

-----------------------------------------------------------------------------
(* Path access, flags, load and save: world_state.py (get, set,            *)
(* world_state_tool, set_progress_flag, load, save) and models.py          *)
(* (NarrativeProgress).                                                    *)

\* manager.state as one value
StoreOf(chars, ens, cmb, w) ==
    [characters |-> chars, enemies |-> ens, combat |-> cmb, world |-> w]

\* the objects a path walks through: kind is the class of a model object,
\* "dict", "value" (a number, a string, a boolean or a list) or "None",
\* and ref the path that leads to the object
RootNode == [kind |-> "WorldState", ref |-> <<>>]

NoneNode == [kind |-> "None", ref |-> <<>>]

\* hasattr(object, part), for the fields the model keeps of each class
Attrs(kind) ==
    CASE kind = "WorldState" ->
           {"current_chapter", "current_scene", "narrative_progress", "combat",
            "turn_state", "characters", "enemies"}
      [] kind = "NarrativeProgress" -> DedicatedFlags \cup {"custom_flags"}
      [] kind = "CombatState" ->
           {"active", "round", "turn_order", "current_turn_index", "combatants"}
      [] kind = "TurnState" -> {"active_agent", "mode", "addressed_agents"}
      [] kind = "CharacterState" ->
           {"name", "hp", "max_hp", "ac", "stats", "proficiency_bonus", "conditions"}
      [] kind = "CharacterStats" -> {"strength", "dexterity", "wisdom"}
      [] kind = "EnemyState" -> {"name", "hp", "max_hp", "ac", "state"}
      [] OTHER -> {}

\* the keys of the dict at ref
DictKeys(st, ref) ==
    IF ref = <<"characters">> THEN DOMAIN st.characters
    ELSE IF ref = <<"enemies">> THEN DOMAIN st.enemies
    ELSE IF ref = <<"combat", "combatants">> THEN DOMAIN st.combat.combatants
    ELSE IF ref = <<"narrative_progress", "custom_flags">>
         THEN DOMAIN st.world.narrative_progress.custom_flags.items
    ELSE IF Len(ref) = 3 /\ SubSeq(ref, 1, 2) = <<"combat", "combatants">>
         THEN {"initiative", "hp", "max_hp", "ac", "is_enemy", "conditions"}
    ELSE {}

\* the class of getattr(object, part) or dict[part]
ChildKind(st, node, part) ==
    LET ref == Append(node.ref, part)
    IN  IF ref \in {<<"characters">>, <<"enemies">>, <<"combat", "combatants">>}
        THEN "dict"
        ELSE IF ref = <<"narrative_progress">> THEN "NarrativeProgress"
        ELSE IF ref = <<"combat">> THEN "CombatState"
        ELSE IF ref = <<"turn_state">> THEN "TurnState"
        ELSE IF ref = <<"narrative_progress", "custom_flags">>
             THEN IF st.world.narrative_progress.custom_flags.is_dict
                  THEN "dict" ELSE "value"
        ELSE IF ref = <<"turn_state", "active_agent">>
             THEN IF st.world.turn_state.active_agent = NoneValue
                  THEN "None" ELSE "value"
        ELSE IF node.ref = <<"characters">> THEN "CharacterState"
        ELSE IF node.ref = <<"enemies">> THEN "EnemyState"
        ELSE IF node.ref = <<"combat", "combatants">> THEN "dict"
        ELSE IF node.kind = "CharacterState" /\ part = "stats" THEN "CharacterStats"
        ELSE "value"

\* the object found under the name part: None carries no trace of where
\* it was read
Found(st, node, part) ==
    IF ChildKind(st, node, part) = "None" THEN NoneNode
    ELSE [kind |-> ChildKind(st, node, part), ref |-> Append(node.ref, part)]

\* one step of the walk: dict.get(part) on a dict, getattr on an object
\* that has the attribute; has says whether the step found something
Child(st, node, part) ==
    IF node.kind = "dict"
    THEN IF part \in DictKeys(st, node.ref)
         THEN [has |-> TRUE, node |-> Found(st, node, part)]
         ELSE [has |-> TRUE, node |-> NoneNode]
    ELSE IF part \in Attrs(node.kind)
         THEN [has |-> TRUE, node |-> Found(st, node, part)]
         ELSE [has |-> FALSE, node |-> NoneNode]

\* get: the object the walk ends on; a step that finds nothing, through a
\* missing key, a missing attribute or a None on the way, makes it None
RECURSIVE GetWalk(_, _, _, _)
GetWalk(st, node, parts, i) ==
    IF i > Len(parts) THEN node
    ELSE IF node.kind = "None" THEN NoneNode
    ELSE GetWalk(st, Child(st, node, parts[i]).node, parts, i + 1)

\* WorldStateManager.get
Get(st, parts) == GetWalk(st, RootNode, parts, 1)

\* set, the walk to the parent: the parent object, or resolved = FALSE when
\* a step has neither the key nor the attribute ("Path not found")
RECURSIVE ParentWalk(_, _, _, _)
ParentWalk(st, node, parts, i) ==
    IF i > Len(parts) - 1 THEN [resolved |-> TRUE, node |-> node]
    ELSE LET c == Child(st, node, parts[i])
         IN  IF c.has THEN ParentWalk(st, c.node, parts, i + 1)
             ELSE [resolved |-> FALSE, node |-> NoneNode]

\* set: "set" when the value is assigned, "ignored" for a top-level name
\* the state does not have (nothing is logged), "path_not_found" and
\* "cannot_set" for the two logged errors
SetOutcome(st, parts) ==
    IF Len(parts) = 1
    THEN IF parts[1] \in Attrs("WorldState") THEN "set" ELSE "ignored"
    ELSE LET p == ParentWalk(st, RootNode, parts, 1)
             final_key == parts[Len(parts)]
         IN  IF ~p.resolved THEN "path_not_found"
             ELSE IF p.node.kind = "dict" THEN "set"
             ELSE IF final_key \in Attrs(p.node.kind) THEN "set"
             ELSE "cannot_set"

\* set: the assignment, for the places the model writes through a path
Assigned(st, parts, value) ==
    IF parts = <<"current_scene">> THEN [st EXCEPT !.world.current_scene = value]
    ELSE IF parts = <<"current_chapter">> THEN [st EXCEPT !.world.current_chapter = value]
    ELSE IF parts = <<"combat", "active">> THEN [st EXCEPT !.combat.active = value]
    ELSE IF parts = <<"combat", "current_turn_index">>
         THEN [st EXCEPT !.combat.current_turn_index = value]
    ELSE IF parts = <<"turn_state", "mode">> THEN [st EXCEPT !.world.turn_state.mode = value]
    ELSE IF parts = <<"turn_state", "active_agent">>
         THEN [st EXCEPT !.world.turn_state.active_agent = value]
    ELSE IF Len(parts) = 2 /\ parts[1] = "narrative_progress" /\ parts[2] \in DedicatedFlags
         THEN [st EXCEPT !.world.narrative_progress.fields[parts[2]] = value]
    ELSE IF Len(parts) = 3 /\ SubSeq(parts, 1, 2) = <<"narrative_progress", "custom_flags">>
         THEN [st EXCEPT !.world.narrative_progress.custom_flags.items =
                            Put(@, parts[3], value)]
    ELSE IF Len(parts) = 3 /\ parts[1] = "characters" /\ parts[3] = "hp"
         THEN [st EXCEPT !.characters[parts[2]].hp = value]
    ELSE IF Len(parts) = 3 /\ parts[1] = "enemies" /\ parts[3] = "hp"
         THEN [st EXCEPT !.enemies[parts[2]].hp = value]
    ELSE IF Len(parts) = 3 /\ parts[1] = "enemies" /\ parts[3] = "state"
         THEN [st EXCEPT !.enemies[parts[2]].state = value]
    ELSE IF Len(parts) = 3 /\ parts[1] = "characters" /\ parts[3] = "max_hp"
         THEN [st EXCEPT !.characters[parts[2]].max_hp = value]
    ELSE IF Len(parts) = 3 /\ parts[1] = "enemies" /\ parts[3] = "max_hp"
         THEN [st EXCEPT !.enemies[parts[2]].max_hp = value]
    ELSE st

\* set: _auto_save is reached unless an error was logged
SetSaves(outcome) == outcome \in {"set", "ignored"}

\* WorldStateManager.set
StoreAfterSet(st, parts, value) ==
    IF SetOutcome(st, parts) = "set" THEN Assigned(st, parts, value) ELSE st

\* world_state_tool, operation "set": manager.set(path, value) returns None
\* whatever happened, and the reply is f"Set {path} = {value}"
ToolSetReply(outcome) == "Set"

\* NarrativeProgress.set_flag: setattr for a name the object has, a dict
\* entry otherwise; the entry raises TypeError once custom_flags is not a
\* dict any more
ProgressAfterSetFlag(np, flag, value) ==
    IF flag \in DedicatedFlags
    THEN [raised |-> FALSE, progress |-> [np EXCEPT !.fields[flag] = value]]
    ELSE IF flag = "custom_flags"
    THEN [raised |-> FALSE, progress |-> [np EXCEPT !.custom_flags = NotABag(value)]]
    ELSE IF np.custom_flags.is_dict
    THEN [raised |-> FALSE,
          progress |-> [np EXCEPT !.custom_flags = FlagBag(Put(@.items, flag, value))]]
    ELSE [raised |-> TRUE, progress |-> np]

\* NarrativeProgress.get_flag: getattr for a dedicated field,
\* custom_flags.get(flag, False) otherwise, which raises AttributeError
\* once custom_flags is not a dict any more
GetFlag(np, flag) ==
    IF flag \in DedicatedFlags
    THEN [raised |-> FALSE, value |-> np.fields[flag]]
    ELSE IF np.custom_flags.is_dict
    THEN [raised |-> FALSE,
          value |-> IF flag \in DOMAIN np.custom_flags.items
                    THEN np.custom_flags.items[flag] ELSE FALSE]
    ELSE [raised |-> TRUE, value |-> FALSE]

\* world_state_tool, operation "set"
ToolSet(parts, value) ==
    LET st == StoreOf(characters, enemies, combat, world)
        outcome == SetOutcome(st, parts)
        st1 == StoreAfterSet(st, parts, value)
    IN  /\ characters' = st1.characters
        /\ enemies' = st1.enemies
        /\ combat' = st1.combat
        /\ world' = st1.world
        /\ last' = [op |-> "tool_set", path |-> parts, value |-> <<value>>,
                    outcome |-> outcome, reply |-> ToolSetReply(outcome)]
        /\ UNCHANGED responding
        /\ hist' = [HistAfterHp(characters', enemies') EXCEPT
                      !.advances = -1, !.new_rounds = 0]
        /\ disk' = IF SetSaves(outcome)
                   THEN AutoSaved(Accessed(disk), characters', enemies', combat', world')
                   ELSE Accessed(disk)

\* world_state_tool, operation "get": the reply shows None for a walk that
\* ended on None
ToolGet(parts) ==
    /\ last' = [op |-> "tool_get", path |-> parts,
                result |-> Get(StoreOf(characters, enemies, combat, world), parts)]
    /\ UNCHANGED <<characters, enemies, combat, world, hist, responding>>
    /\ disk' = Accessed(disk)

\* WorldStateManager.add_enemy
AddEnemy(enemy_id, enemy) ==
    /\ enemies' = Put(enemies, enemy_id, enemy)
    /\ last' = [op |-> "add_enemy", id |-> enemy_id]
    /\ UNCHANGED responding
    /\ hist' = HistAfterHp(characters, enemies')
    /\ UNCHANGED <<characters, combat, world>>
    /\ disk' = AutoSaved(Accessed(disk), characters', enemies', combat', world')

\* WorldStateManager.add_character
AddCharacter(char_id, character) ==
    /\ characters' = Put(characters, char_id, character)
    /\ last' = [op |-> "add_character", id |-> char_id]
    /\ UNCHANGED responding
    /\ hist' = HistAfterHp(characters', enemies)
    /\ UNCHANGED <<enemies, combat, world>>
    /\ disk' = AutoSaved(Accessed(disk), characters', enemies', combat', world')

\* WorldStateManager.remove_enemy
RemoveEnemy(enemy_id) ==
    /\ enemies' = Restrict(enemies, DOMAIN enemies \ {enemy_id})
    /\ last' = [op |-> "remove_enemy", id |-> enemy_id,
                removed |-> enemy_id \in DOMAIN enemies]
    /\ UNCHANGED responding
    /\ hist' = HistAfterHp(characters, enemies')
    /\ UNCHANGED <<characters, combat, world>>
    /\ disk' = IF enemy_id \in DOMAIN enemies
               THEN AutoSaved(Accessed(disk), characters', enemies', combat', world')
               ELSE Accessed(disk)

\* WorldStateManager.set_progress_flag; raised: the exception of set_flag
\* leaves the call before _auto_save
SetProgressFlag(flag, value) ==
    LET r == ProgressAfterSetFlag(world.narrative_progress, flag, value)
    IN  /\ world' = [world EXCEPT !.narrative_progress = r.progress]
        /\ last' = [op |-> "set_progress_flag", flag |-> flag, value |-> value,
                    raised |-> r.raised]
        /\ UNCHANGED <<characters, enemies, combat, hist, responding>>
        /\ disk' = IF r.raised THEN Accessed(disk)
                   ELSE AutoSaved(Accessed(disk), characters', enemies', combat', world')

\* WorldStateManager.get_progress_flag
GetProgressFlag(flag) ==
    /\ last' = [op |-> "get_progress_flag", flag |-> flag,
                result |-> GetFlag(world.narrative_progress, flag)]
    /\ UNCHANGED <<characters, enemies, combat, world, hist, responding>>
    /\ disk' = Accessed(disk)

\* WorldStateManager.load; an exception that leaves load leaves the
\* manager as it was
Load ==
    LET o == LoadOutcome(disk.file)
    IN  IF o.raised
        THEN /\ last' = [op |-> "load", file |-> disk.file, raised |-> TRUE]
             /\ UNCHANGED <<characters, enemies, combat, world, disk, hist, responding>>
        ELSE /\ characters' = o.state.characters
             /\ enemies' = o.state.enemies
             /\ combat' = o.state.combat
             /\ world' = o.state.world
             /\ last' = [op |-> "load", file |-> disk.file, raised |-> FALSE]
             /\ UNCHANGED responding
             /\ hist' = HistInit(characters')
             /\ disk' = IF o.persisted
                        THEN Saved([disk EXCEPT !.loaded = TRUE],
                                   characters', enemies', combat', world')
                        ELSE [disk EXCEPT !.loaded = TRUE]

\* save, first step: open(state_file, "w") empties the file (nothing
\* happens while no state is loaded)
SaveOpen ==
    /\ ~disk.saving
    /\ disk.loaded
    /\ last' = [op |-> "save", prior |-> disk.file,
                new |-> FileOf(Document(characters, enemies, combat, world))]
    /\ UNCHANGED <<characters, enemies, combat, world, hist, responding>>
    /\ disk' = [disk EXCEPT !.saving = TRUE, !.file = EmptyFile]

\* save, json.dump: the next part of the text reaches the file (the
\* opening bracket, then the fields one by one)
SaveWrite ==
    /\ disk.saving
    /\ Len(disk.file.body) < Len(last.new.body)
    /\ UNCHANGED <<characters, enemies, combat, world, last, hist, responding>>
    /\ disk' = [disk EXCEPT
                  !.file = IF @.open = "" THEN [@ EXCEPT !.open = "{"]
                           ELSE [@ EXCEPT !.body = SubSeq(last.new.body, 1, Len(@) + 1)]]

\* save, last step: the rest of the text is written and the file closed
SaveClose ==
    /\ disk.saving
    /\ UNCHANGED <<characters, enemies, combat, world, hist, responding>>
    /\ last' = [last EXCEPT !.op = "saved"]
    /\ disk' = [disk EXCEPT !.saving = FALSE, !.file = last.new]

\* save stopped between two of its steps, by an exception of the write or
\* by the end of the process: the file stays as it is
SaveInterrupted ==
    /\ disk.saving
    /\ UNCHANGED <<characters, enemies, combat, world, hist, responding>>
    /\ last' = [last EXCEPT !.op = "save_interrupted"]
    /\ disk' = [disk EXCEPT !.saving = FALSE]

-----------------------------------------------------------------------------
(* Specification of the HP primitive: one character and one enemy whose    *)
(* hp, max_hp, conditions and state are drawn, then any sequence of        *)
(* update_hp and resolve_attack calls.                                     *)

HpIds == {"ai_fighter", "goblin_1", "ghost"}

HpConditionChoices ==
    {<<>>, <<"poisoned">>, <<"unconscious">>, <<"poisoned", "unconscious">>}

HpAttackRolls == {<<1, 1>>, <<12, 12>>, <<20, 20>>}

HpDamageFaces == {<<1, 1>>}

\* the world holds one entity: a character or an enemy
InitHP ==
    /\ \/ /\ \E m \in 0..MaxHpDrawn, h \in 0..MaxHpDrawn, cs \in HpConditionChoices :
                /\ h <= m
                /\ characters = [id \in {"ai_fighter"} |->
                                    [DefaultCharacters["ai_fighter"] EXCEPT
                                        !.hp = h, !.max_hp = m, !.conditions = cs]]
          /\ enemies = EmptyMap
       \/ /\ \E m \in 0..MaxHpDrawn, h \in 0..MaxHpDrawn, st \in {"alive", "dead", "fled"} :
                /\ h <= m
                /\ enemies = [id \in {"goblin_1"} |->
                                 [NewEnemy("goblin", "goblin_1") EXCEPT
                                     !.hp = h, !.max_hp = m, !.state = st]]
          /\ characters = EmptyMap
    /\ combat = DefaultCombat
    /\ world = DefaultWorld
    /\ disk = DiskInSync(characters, enemies, combat, world)
    /\ last = [op |-> "init"]
    /\ responding = {}
    /\ hist = HistInit(characters)

NextHP ==
    \/ \E id \in HpIds, delta \in (-MaxDelta)..MaxDelta : UpdateHp(id, delta)
    \/ \E a \in HpIds, t \in HpIds \ {"ghost"}, d20 \in HpAttackRolls, dmg \in HpDamageFaces :
          ResolveAttack(a, t, "longsword", FALSE, FALSE, d20, dmg, dmg)

SpecHP == InitHP /\ [][NextHP]_vars

-----------------------------------------------------------------------------
(* Specification of an encounter on the default world: turns are advanced  *)
(* while combatants are killed and healed.                                 *)

TurnParties == {<<"ai_fighter">>, <<"ai_fighter", "human_player">>, <<"ghost">>}

TurnEnemyLists == {<<>>, <<"goblin_1">>}

TurnIds == {"human_player", "ai_fighter", "goblin_1"}

\* d20 value of every initiative roll of the encounter specifications
TurnFaces == {5}

\* update_hp deltas of the encounter specifications: a kill and a full heal
FullDelta == 30

Init ==
    /\ characters = DefaultCharacters
    /\ enemies = EmptyMap
    /\ combat = DefaultCombat
    /\ world = DefaultWorld
    /\ disk = DiskInSync(characters, enemies, combat, world)
    /\ last = [op |-> "init"]
    /\ responding = {}
    /\ hist = HistInit(characters)

StartAny(parties, enemy_lists, types, faces) ==
    \E party \in parties, enemy_ids \in enemy_lists, enemy_type \in types :
        \E f \in [1..InitiativeRolls(characters, party, enemy_ids) -> faces] :
            StartCombat(party, enemy_ids, enemy_type, f)

Next ==
    \/ StartAny(TurnParties, TurnEnemyLists, {"goblin"}, TurnFaces)
    \/ (combat.round < MaxRound /\ AdvanceTurn)
    \/ \E id \in TurnIds, delta \in {-FullDelta, FullDelta} : UpdateHp(id, delta)
    \/ \E a \in {"goblin_1"}, t \in {"ai_fighter"}, d20 \in {<<1, 1>>, <<20, 20>>} :
          ResolveAttack(a, t, "longsword", FALSE, FALSE, d20, <<6, 6>>, <<6, 6>>)
    \/ \E reason \in {"normal"} : EndCombat(reason)

Spec == Init /\ [][Next]_vars

-----------------------------------------------------------------------------
(* Specification of combat-end detection: encounters are started and       *)
(* ended while every entity is killed and healed, and the end of combat    *)
(* is checked in every state.  The world is the default one or one         *)
(* without characters.                                                     *)

EndIds == DOMAIN DefaultCharacters \cup {"goblin_1", "goblin_2"}

InitEnd ==
    /\ characters \in {DefaultCharacters, EmptyMap}
    /\ enemies = EmptyMap
    /\ combat = DefaultCombat
    /\ world = DefaultWorld
    /\ disk = DiskInSync(characters, enemies, combat, world)
    /\ last = [op |-> "init"]
    /\ responding = {}
    /\ hist = HistInit(characters)

NextEnd ==
    \/ StartAny({<<"ai_fighter">>}, {<<>>, <<"goblin_1", "goblin_2">>}, {"goblin"}, TurnFaces)
    \/ \E id \in EndIds, delta \in {-FullDelta, FullDelta} : UpdateHp(id, delta)
    \/ CheckCombatEnd
    \/ \E reason \in {"enemies_defeated"} : EndCombat(reason)

SpecEnd == InitEnd /\ [][NextEnd]_vars

-----------------------------------------------------------------------------
(* Specification of turn advancement in every combat state: encounters    *)
(* with kills and heals, and combat.active also written directly through   *)
(* set.                                                                    *)

NextAdv ==
    \/ StartAny({<<"ai_fighter">>, <<"ai_fighter", "human_player">>}, TurnEnemyLists,
                {"goblin"}, TurnFaces)
    \/ (combat.round < MaxRound /\ AdvanceTurn)
    \/ \E id \in TurnIds, delta \in {-FullDelta, FullDelta} : UpdateHp(id, delta)
    \/ \E value \in BOOLEAN : SetCombatActive(value)
    \/ \E reason \in {"normal"} : EndCombat(reason)

SpecAdv == Init /\ [][NextAdv]_vars

-----------------------------------------------------------------------------
(* Specification of start_combat: one call on a world the program can be   *)
(* in, with every party list, enemy list, enemy type and initiative roll   *)
(* within the bounds.                                                      *)

StartPartyPool == {"ai_fighter", "human_player", "ghost"}

StartEnemyPool == {"goblin_1", "wolf_1"}

StartTypes == {"goblin", "wolf"}

StartFaces == {5, 6}

\* the encounter start_combat(["ai_fighter"], ["goblin_1"]) leaves behind
\* when every initiative die shows 5
EarlierEncounter ==
    LET sorted == SortCombatants(
                      CombatantsRolled(DefaultCharacters, <<"ai_fighter">>, <<"goblin_1">>,
                                       "goblin", <<5, 5>>))
    IN  StartedCombat(sorted)

\* the default world; the default world with the fighter at 0 hp; the
\* earlier encounter with its goblin killed
InitStart ==
    /\ \/ /\ characters = DefaultCharacters
          /\ enemies = EmptyMap
          /\ combat = DefaultCombat
       \/ /\ characters = CharactersAfterHp(DefaultCharacters, "ai_fighter", -FullDelta)
          /\ enemies = EmptyMap
          /\ combat = DefaultCombat
       \/ /\ characters = DefaultCharacters
          /\ enemies = EnemiesAfterHp(DefaultCharacters,
                                      EnemiesAfterStart(EmptyMap, <<"goblin_1">>, "goblin"),
                                      "goblin_1", -FullDelta)
          /\ combat = EarlierEncounter
    /\ world = DefaultWorld
    /\ disk = DiskInSync(characters, enemies, combat, world)
    /\ last = [op |-> "init"]
    /\ responding = {}
    /\ hist = HistInit(characters)

NextStart ==
    /\ last.op = "init"
    /\ StartAny(AllSeqs(StartPartyPool, MaxParty), AllSeqs(StartEnemyPool, MaxEnemies),
                StartTypes, StartFaces)

SpecStart == InitStart /\ [][NextStart]_vars

-----------------------------------------------------------------------------
(* Specification of every combat operation on the default world: the       *)
(* encounter specification with check_combat_end.                          *)

NextAll ==
    \/ Next
    \/ CheckCombatEnd

SpecAll == Init /\ [][NextAll]_vars

-----------------------------------------------------------------------------
(* Specification of end_combat: encounters with two goblins that are       *)
(* killed, healed or marked as fled, ended for any reason.                 *)

PurgeIds == {"goblin_1", "goblin_2"}

PurgeReasons == {"normal", "enemies_defeated", "fled"}

NextPurge ==
    \/ StartAny({<<"ai_fighter">>}, {<<"goblin_1", "goblin_2">>}, {"goblin"}, TurnFaces)
    \/ \E id \in PurgeIds \cup {"ai_fighter"}, delta \in {-FullDelta, FullDelta} :
          UpdateHp(id, delta)
    \/ \E id \in PurgeIds : SetEnemyState(id, "fled")
    \/ \E reason \in PurgeReasons : EndCombat(reason)

SpecPurge == Init /\ [][NextPurge]_vars

-----------------------------------------------------------------------------
(* Specification of resolve_attack: one call on a world the program can be *)
(* in, for every attacker, target, weapon, advantage flag and die value of *)
(* the sets below.                                                         *)

AtkAttackers == {"human_player", "ai_fighter", "goblin_1", "wolf_1", "ghost"}

AtkTargets == {"ai_fighter", "goblin_1", "ghost"}

\* "club" is not a key of WEAPONS
AtkWeapons == {"longsword", "shortbow", "club"}

AtkD20 == {<<1, 20>>, <<20, 1>>, <<12, 12>>, <<14, 9>>, <<20, 20>>, <<1, 1>>}

AtkDamageFaces == {<<1, 1>>, <<4, 3>>}

AtkCritFaces == {<<1, 1>>, <<2, 4>>}

\* the enemies two start_combat calls leave in the store
AtkEnemies ==
    EnemiesAfterStart(EnemiesAfterStart(EmptyMap, <<"goblin_1">>, "goblin"),
                      <<"wolf_1">>, "wolf")

\* the default party with the rogue's strength set to 1 (add_character or
\* set on a CharacterState accept every score in 1..30)
AtkWeakRogue == [DefaultCharacters EXCEPT !["human_player"].stats.strength = 1]

\* three worlds: everybody at full hp; the fighter in heavy armour and down,
\* the goblin dead; the fighter and the goblin wounded
InitAtk ==
    /\ \/ /\ characters = DefaultCharacters
          /\ enemies = AtkEnemies
       \/ /\ characters = CharactersAfterHp(
                               [AtkWeakRogue EXCEPT !["ai_fighter"].ac = 25],
                               "ai_fighter", -FullDelta)
          /\ enemies = EnemiesAfterHp(AtkWeakRogue, AtkEnemies, "goblin_1", -FullDelta)
       \/ /\ characters = CharactersAfterHp(AtkWeakRogue, "ai_fighter", -6)
          /\ enemies = EnemiesAfterHp(AtkWeakRogue, AtkEnemies, "goblin_1", -6)
    /\ combat = DefaultCombat
    /\ world = DefaultWorld
    /\ disk = DiskInSync(characters, enemies, combat, world)
    /\ last = [op |-> "init"]
    /\ responding = {}
    /\ hist = HistInit(characters)

NextAtk ==
    /\ last.op = "init"
    /\ \E a \in AtkAttackers, t \in AtkTargets, w \in AtkWeapons,
          adv \in BOOLEAN, dis \in BOOLEAN,
          d20 \in AtkD20, dmg \in AtkDamageFaces, crit \in AtkCritFaces :
            ResolveAttack(a, t, w, adv, dis, d20, dmg, crit)

SpecAtk == InitAtk /\ [][NextAtk]_vars

-----------------------------------------------------------------------------
(* Specification of the turn gate: the DM sets the turn with any subset of *)
(* the three arguments, and the players and the NPC are asked whether to   *)
(* respond, with and without an incoming message.                          *)

GateActives == {NoneValue, "thokk", "npc", "human"}

GateModes == {"dm_control", "combat", "exploration", "free_form"}

GateAddressed == {<<>>, <<"thokk", "npc">>}

GatePlayers == {"thokk", "lira"}

GateInputs ==
    [given : SUBSET {"active_agent", "mode", "addressed"},
     active_agent : GateActives, mode : GateModes, addressed : GateAddressed]

\* messages: none; without a tag, naming nobody, one agent or two; with a
\* [TURN:x] tag, whose target the text then contains
GateMessages ==
    {NoMessage}
    \cup {[present |-> TRUE, turn_tag |-> NoneValue, mentioned |-> m] :
            m \in {{}, {"thokk"}, {"npc"}, {"thokk", "lira"}}}
    \cup {[present |-> TRUE, turn_tag |-> t, mentioned |-> {t} \cap KnownAgentNames] :
            t \in {"npc", "thokk", "all"}}

NextTurn ==
    \/ \E input_args \in GateInputs : SetTurn(input_args)
    \/ \E agent_id \in GatePlayers \cup {NpcAgentId} : IsAgentTurnQuery(agent_id)
    \/ \E agent_id \in GatePlayers, msg \in GateMessages : PlayerGate(agent_id, msg)
    \/ \E msg \in GateMessages : NpcGate(msg)

SpecTurn == Init /\ [][NextTurn]_vars

-----------------------------------------------------------------------------
(* Specification of load and save: a manager is constructed on a state     *)
(* file that is absent, damaged or valid; the state is loaded, changed     *)
(* through set and saved, and a save may stop between two of its steps.    *)

\* the default world in another scene
PersistOtherWorld == [DefaultWorld EXCEPT !.current_scene = "cragmaw_hideout"]

DefaultDocument == Document(DefaultCharacters, EmptyMap, DefaultCombat, DefaultWorld)

\* files that json.load or model_validate rejects: an empty file, a text
\* cut after three fields, a JSON list, a chapter below 1, custom_flags
\* that is not an object
PersistCorrupt ==
    {EmptyFile,
     [exists |-> TRUE, open |-> "{", body |-> SubSeq(DefaultDocument, 1, 3), closed |-> FALSE],
     [exists |-> TRUE, open |-> "[", body |-> <<>>, closed |-> TRUE],
     FileOf(Document(DefaultCharacters, EmptyMap, DefaultCombat,
                     [DefaultWorld EXCEPT !.current_chapter = 0])),
     FileOf(Document(DefaultCharacters, EmptyMap, DefaultCombat,
                     [DefaultWorld EXCEPT !.narrative_progress.custom_flags = NotABag(TRUE)]))}

\* files that load accepts: the default world, another scene with a
\* wounded fighter, and the object without fields
PersistValid ==
    {FileOf(DefaultDocument),
     FileOf(Document(CharactersAfterHp(DefaultCharacters, "ai_fighter", -5), EmptyMap,
                     DefaultCombat, PersistOtherWorld)),
     FileOf(<<>>)}

PersistSetCalls ==
    {<<<<"current_scene">>, "goblin_ambush">>, <<<<"current_scene">>, "intro">>,
     <<<<"characters", "ai_fighter", "hp">>, 3>>}

\* a manager that has not accessed its state yet
InitPersist ==
    /\ \E f \in {NoFile} \cup PersistCorrupt \cup PersistValid, auto \in BOOLEAN :
          /\ disk = [auto_save |-> auto, loaded |-> FALSE, saving |-> FALSE, file |-> f]
          /\ characters = LoadOutcome(f).state.characters
          /\ enemies = LoadOutcome(f).state.enemies
          /\ combat = LoadOutcome(f).state.combat
          /\ world = LoadOutcome(f).state.world
    /\ last = [op |-> "init"]
    /\ responding = {}
    /\ hist = HistInit(characters)

NextPersist ==
    \/ (~disk.saving /\ Load)
    \/ (~disk.saving /\ \E call \in PersistSetCalls : ToolSet(call[1], call[2]))
    \/ SaveOpen
    \/ SaveWrite
    \/ SaveClose
    \/ SaveInterrupted

SpecPersist == InitPersist /\ [][NextPersist]_vars

-----------------------------------------------------------------------------
(* Specification of the store operations: a manager with auto_save on or   *)
(* off is constructed on an absent, empty or valid state file, and the     *)
(* mutators, the path reads and the combat operations are called.          *)

StoreSetCalls ==
    {<<<<"current_scene">>, "goblin_ambush">>,
     <<<<"nonexistent">>, "x">>,
     <<<<"nonexistent", "field">>, "x">>,
     <<<<"turn_state", "nonexistent">>, "x">>,
     <<<<"characters", "ghost", "hp">>, 3>>}

\* paths that lead nowhere in any state of this specification
StoreMissingPaths ==
    {<<"nonexistent">>, <<"turn_state", "nonexistent">>, <<"characters", "ghost", "hp">>,
     <<"current_scene", "length">>}

StoreGetPaths ==
    StoreMissingPaths
    \cup {<<"turn_state", "active_agent">>, <<"current_scene">>}

StoreHpIds == {"goblin_1", "ghost"}

InitStore ==
    /\ \E f \in {NoFile, EmptyFile, FileOf(DefaultDocument)}, auto \in BOOLEAN :
          /\ disk = [auto_save |-> auto, loaded |-> FALSE, saving |-> FALSE, file |-> f]
          /\ characters = LoadOutcome(f).state.characters
          /\ enemies = LoadOutcome(f).state.enemies
          /\ combat = LoadOutcome(f).state.combat
          /\ world = LoadOutcome(f).state.world
    /\ last = [op |-> "init"]
    /\ responding = {}
    /\ hist = HistInit(characters)

NextStore ==
    \/ \E call \in StoreSetCalls : ToolSet(call[1], call[2])
    \/ \E parts \in StoreGetPaths : ToolGet(parts)
    \/ \E id \in StoreHpIds : UpdateHp(id, -FullDelta)
    \/ AddEnemy("goblin_1", NewEnemy("goblin", "goblin_1"))
    \/ AddCharacter("hireling", DefaultCharacters["ai_cleric"])
    \/ \E id \in {"goblin_1", "ghost"} : RemoveEnemy(id)
    \/ \E value \in {TRUE} : SetProgressFlag("goblins_defeated", value)
    \/ StartAny({<<"ai_fighter">>}, {<<"goblin_1">>}, {"goblin"}, TurnFaces)
    \/ (combat.round < MaxRound /\ AdvanceTurn)
    \/ \E d20 \in {<<1, 1>>, <<20, 20>>} :
          ResolveAttack("ai_fighter", "goblin_1", "longsword", FALSE, FALSE, d20,
                        <<6, 6>>, <<6, 6>>)
    \/ \E reason \in {"normal"} : EndCombat(reason)

SpecStore == InitStore /\ [][NextStore]_vars

-----------------------------------------------------------------------------
(* Specification of the progress flags: dedicated fields, ad hoc names     *)
(* and the name of the bag itself are set and read on the default world.   *)

FlagNames == {"goblins_defeated", "sildar_rescued", "found_map", "met_sildar", "custom_flags"}

NextFlags ==
    \/ \E flag \in FlagNames, value \in BOOLEAN : SetProgressFlag(flag, value)
    \/ \E flag \in FlagNames : GetProgressFlag(flag)

SpecFlags == Init /\ [][NextFlags]_vars

-----------------------------------------------------------------------------
(* Properties of the HP primitive (SpecHP).                                *)

\* the entity an id names for update_hp
Entity(chars, ens, id) == IF id \in DOMAIN chars THEN chars[id] ELSE ens[id]

\* the conditions other than "unconscious", in order
OtherConditions(conditions) == SelectSeq(conditions, LAMBDA c : c # "unconscious")

\* C1: every character and every enemy keeps 0 <= hp <= max_hp after every
\* update_hp call, and the call returns the stored new hp, which is
\* clamp(old_hp + delta, 0, max_hp).
C1_HpClamped ==
    /\ \A id \in DOMAIN characters :
          0 <= characters[id].hp /\ characters[id].hp <= characters[id].max_hp
    /\ \A id \in DOMAIN enemies :
          0 <= enemies[id].hp /\ enemies[id].hp <= enemies[id].max_hp
    /\ (last.op = "update_hp" /\ last.ok) =>
          LET e == Entity(characters, enemies, last.id)
              sum == last.old_hp + last.delta
          IN  /\ last.value = e.hp
              /\ e.hp = IF sum < 0 THEN 0 ELSE IF sum > e.max_hp THEN e.max_hp ELSE sum

\* C1 witness: a heal that would exceed max_hp was cut down to max_hp
C1_Witness ==
    /\ last.op = "update_hp" /\ last.ok
    /\ last.old_hp + last.delta > Entity(characters, enemies, last.id).max_hp
    /\ last.old_hp < Entity(characters, enemies, last.id).max_hp
    /\ last.value = Entity(characters, enemies, last.id).max_hp

\* C2: for a character that started with hp > 0 and not unconscious, after
\* every update_hp (direct or inside resolve_attack) "unconscious" is among
\* its conditions iff hp = 0, at most once; and no step changes the other
\* conditions of any character.
C2_UnconsciousIffZero ==
    [][\A id \in DOMAIN characters :
          /\ id \in hist.healthy =>
                /\ Contains(characters'[id].conditions, "unconscious")
                      <=> characters'[id].hp = 0
                /\ CountOf(characters'[id].conditions, "unconscious") <= 1
          /\ OtherConditions(characters'[id].conditions)
                = OtherConditions(characters[id].conditions)]_vars

\* C2 witness: a character that started conscious fell to 0 and was revived
\* by a positive delta, its other condition still in place
C2_Witness ==
    /\ last.op = "update_hp" /\ last.ok /\ last.id \in hist.healthy
    /\ last.old_hp = 0 /\ last.delta > 0
    /\ characters[last.id].hp > 0
    /\ characters[last.id].conditions = <<"poisoned">>

\* C3: a step that takes an enemy's hp from > 0 to 0 sets its state to
\* "dead"; an enemy whose state is "dead" stays "dead" and not alive under
\* every later update_hp, while a character at 0 hp is alive again after a
\* positive delta.
C3_DeadIsIrreversible ==
    [][/\ \A id \in DOMAIN enemies :
             /\ (enemies[id].hp > 0 /\ enemies'[id].hp = 0) => enemies'[id].state = "dead"
             /\ enemies[id].state = "dead" =>
                   enemies'[id].state = "dead" /\ ~EnemyIsAlive(enemies'[id])
       /\ \A id \in DOMAIN characters :
             (/\ last'.op = "update_hp" /\ last'.id = id /\ last'.delta > 0
              /\ characters[id].hp = 0 /\ characters[id].max_hp > 0)
                => CharIsAlive(characters'[id])]_vars

\* C3 witness: a dead enemy at 0 hp was healed above 0 and is still dead
C3_Witness ==
    /\ last.op = "update_hp" /\ last.ok /\ last.id \in DOMAIN enemies
    /\ last.old_hp = 0 /\ last.delta > 0
    /\ enemies[last.id].hp > 0
    /\ enemies[last.id].state = "dead"

-----------------------------------------------------------------------------
(* Properties of combat-end detection (SpecEnd).                           *)

EnemiesWiped == DOMAIN enemies # {} /\ \A id \in DOMAIN enemies : ~EnemyIsAlive(enemies[id])

PartyWiped ==
    DOMAIN characters # {} /\ \A id \in DOMAIN characters : ~CharIsAlive(characters[id])

\* C4 as claimed: while combat is active check_combat_end returns
\* "enemies_defeated" iff the enemies are wiped and "party_defeated" iff the
\* party is wiped, otherwise nothing; nothing while inactive; no state change.
C4_AsClaimed ==
    [][last'.op = "check_combat_end" =>
          /\ UNCHANGED <<characters, enemies, combat>>
          /\ IF combat.active
             THEN /\ last'.reason = "enemies_defeated" <=> EnemiesWiped
                  /\ last'.reason = "party_defeated" <=> PartyWiped
                  /\ last'.reason \in {"enemies_defeated", "party_defeated", "none"}
             ELSE last'.reason = "none"]_vars

\* C4 amended: as claimed, except that "party_defeated" is returned iff the
\* party is wiped and the enemies are not (the enemies are checked first).
C4_CombatEndDetection ==
    [][last'.op = "check_combat_end" =>
          /\ UNCHANGED <<characters, enemies, combat>>
          /\ IF combat.active
             THEN /\ last'.reason = "enemies_defeated" <=> EnemiesWiped
                  /\ last'.reason = "party_defeated" <=> (PartyWiped /\ ~EnemiesWiped)
                  /\ last'.reason \in {"enemies_defeated", "party_defeated", "none"}
             ELSE last'.reason = "none"]_vars

\* C4 witness: with both sides wiped in an active combat the check answered
\* "enemies_defeated"
C4_Witness ==
    /\ last.op = "check_combat_end"
    /\ combat.active /\ EnemiesWiped /\ PartyWiped
    /\ last.reason = "enemies_defeated"

-----------------------------------------------------------------------------
(* Properties of turn advancement (Spec, SpecAdv).                         *)

\* liveness of an id in the store
StoreAlive(id) ==
    \/ id \in DOMAIN enemies /\ enemies[id].state = "alive" /\ enemies[id].hp > 0
    \/ id \notin DOMAIN enemies /\ id \in DOMAIN characters /\ characters[id].hp > 0

\* C5 as claimed: once a combatant of the turn order has been killed during
\* the encounter, no later advance_turn of that encounter lands on its id,
\* whatever operations follow.
C5_AsClaimed ==
    [][last'.op = "advance_turn" /\ last'.ok => last'.id \notin hist.killed]_vars

\* C5 amended: advance_turn never lands on a combatant killed during the
\* encounter while the store still holds it as not alive; the only killed
\* combatant it lands on again is a character healed above 0 hp, never an
\* enemy.
C5_SkipsTheDead ==
    [][last'.op = "advance_turn" /\ last'.ok =>
          \A id \in hist.killed :
              last'.id = id =>
                  /\ StoreAlive(id)
                  /\ id \notin DOMAIN enemies
                  /\ characters[id].hp > 0]_vars

\* C5 witness: an advance walked past a killed combatant that is still down
C5_Witness ==
    /\ last.op = "advance_turn" /\ last.ok /\ last.attempts > 0
    /\ \E id \in hist.killed : ~StoreAlive(id)

\* C6 as claimed: after a successful start_combat with every combatant alive
\* and no HP change, len(turn_order) calls of advance_turn take the round
\* from 1 to 2 and exactly one of them reports a new round, for every
\* turn-order length >= 1.
C6_AsClaimed ==
    (combat.active /\ Len(combat.turn_order) >= 1 /\ hist.advances = Len(combat.turn_order))
        => (combat.round = 2 /\ hist.new_rounds = 1)

\* C10: advance_turn returns no result exactly when combat is inactive, or
\* the turn order is empty, or nobody in the turn order is alive in the
\* store, and then leaves current_turn_index and round alone; in every other
\* state it succeeds.
C10_AdvanceRefusedExactly ==
    [][last'.op = "advance_turn" =>
          LET nobody == \A i \in 1..Len(combat.turn_order) : ~StoreAlive(combat.turn_order[i])
              none == ~combat.active \/ combat.turn_order = <<>> \/ nobody
          IN  /\ ~last'.ok <=> none
              /\ ~last'.ok => /\ combat'.current_turn_index = combat.current_turn_index
                              /\ combat'.round = combat.round]_vars

\* C10 witness: advance_turn was refused in an active combat whose turn order
\* is not empty
C10_Witness ==
    /\ last.op = "advance_turn" /\ ~last.ok
    /\ combat.active /\ combat.turn_order # <<>>

-----------------------------------------------------------------------------
(* Properties of start_combat (SpecStart).                                 *)

\* a <= b on display names
StrLeq(a, b) == ~StrLess(b, a)

\* the combatants of the last start_combat in the order they were rolled
StartedInfos ==
    CombatantsRolled(characters, last.party, last.enemy_ids, last.enemy_type, last.faces)

\* a goes before b whatever the order they were rolled in
KeyBefore(a, b) ==
    \/ a.initiative > b.initiative
    \/ a.initiative = b.initiative /\ StrLess(a.name, b.name)

\* C7: after a successful start_combat the stored turn order is sorted by
\* initiative descending, ties by display name ascending, and it is the one
\* order the inputs and rolls determine: combatants with equal initiative
\* and name keep the order they were rolled in.
C7_TurnOrderSorted ==
    (last.op = "start_combat" /\ last.ok) =>
        LET order == last.turn_order
            infos == StartedInfos
            n == Len(order)
        IN  /\ Len(combat.turn_order) = n
            /\ \A i \in 1..n : combat.turn_order[i] = order[i].id
            /\ \A i \in 1..(n - 1) :
                  \/ order[i].initiative > order[i + 1].initiative
                  \/ /\ order[i].initiative = order[i + 1].initiative
                     /\ StrLeq(order[i].name, order[i + 1].name)
            /\ Len(infos) = n
            /\ \A k \in 1..n :
                  LET ahead == {m \in 1..n :
                                   \/ KeyBefore(infos[m], infos[k])
                                   \/ ~KeyBefore(infos[k], infos[m]) /\ m < k}
                  IN  order[Cardinality(ahead) + 1] = infos[k]

\* C7 witness: a character stands before an enemy of equal initiative, by name
C7_Witness ==
    /\ last.op = "start_combat" /\ last.ok
    /\ \E i \in 1..(Len(last.turn_order) - 1) :
          /\ last.turn_order[i].initiative = last.turn_order[i + 1].initiative
          /\ ~last.turn_order[i].is_enemy
          /\ last.turn_order[i + 1].is_enemy

\* the ids handed to the last start_combat
GivenIds == last.enemy_ids \o last.party

\* C8: after a successful start_combat with pairwise distinct ids, combat is
\* active in round 1 at index 0, the turn order holds each enemy id and each
\* party id of an existing character exactly once and nothing else, and the
\* snapshot has exactly one entry per id of the turn order.
C8_StartPersists ==
    (/\ last.op = "start_combat" /\ last.ok
     /\ \A i, j \in 1..Len(GivenIds) : GivenIds[i] = GivenIds[j] => i = j) =>
        /\ combat.active
        /\ combat.round = 1
        /\ combat.current_turn_index = 0
        /\ \A id \in Range(GivenIds) \cup Range(combat.turn_order) :
              CountOf(combat.turn_order, id) =
                  IF id \in Range(last.enemy_ids) \/ id \in DOMAIN characters THEN 1 ELSE 0
        /\ DOMAIN combat.combatants = Range(combat.turn_order)

\* C8 witness: a start with an enemy, an existing character and an unknown
\* party id, all distinct
C8_Witness ==
    /\ last.op = "start_combat" /\ last.ok
    /\ \A i, j \in 1..Len(GivenIds) : GivenIds[i] = GivenIds[j] => i = j
    /\ Len(last.enemy_ids) >= 1
    /\ "ghost" \in Range(last.party)
    /\ \E id \in Range(last.party) : id \in DOMAIN characters
    /\ Len(combat.turn_order) = 2

\* C9: start_combat with no enemy ids and no party id of an existing
\* character fails with a non-empty error and leaves combat and the enemies
\* mapping as they were.
C9_EmptyStartFails ==
    [][(/\ last'.op = "start_combat"
        /\ last'.enemy_ids = <<>>
        /\ \A i \in 1..Len(last'.party) : last'.party[i] \notin DOMAIN characters) =>
          /\ ~last'.ok
          /\ last'.error # ""
          /\ combat' = combat
          /\ enemies' = enemies]_vars

\* C9 witness: a start naming only unknown party ids failed while an earlier
\* encounter was active, and that encounter is still there
C9_Witness ==
    /\ last.op = "start_combat" /\ ~last.ok
    /\ Len(last.party) > 0
    /\ combat = EarlierEncounter
    /\ DOMAIN enemies # {}

-----------------------------------------------------------------------------
(* Properties of resolve_attack (SpecAtk).                                 *)

\* an AttackResult was returned by the last call
Attacked == last.op = "resolve_attack" /\ last.ok

\* the d20 face the attack keeps: the higher with advantage alone, the lower
\* with disadvantage alone, the first one rolled otherwise
KeptFace ==
    IF last.advantage /\ ~last.disadvantage
    THEN (IF last.d20[1] >= last.d20[2] THEN last.d20[1] ELSE last.d20[2])
    ELSE IF last.disadvantage /\ ~last.advantage
    THEN (IF last.d20[1] <= last.d20[2] THEN last.d20[1] ELSE last.d20[2])
    ELSE last.d20[1]

\* C11: hit holds iff critical holds or attack_total >= target_ac, where
\* attack_total is the kept d20 face plus the attacker's attack bonus and
\* critical is a kept face of 20; a natural 20 hits whatever the AC.
C11_HitRule ==
    Attacked =>
        LET r == last.result
        IN  /\ r.attack_total
                 = KeptFace + GetAttackBonus(characters, enemies, last.attacker, last.weapon)
            /\ r.critical <=> KeptFace = 20
            /\ r.hit <=> (r.critical \/ r.attack_total >= r.target_ac)
            /\ KeptFace = 20 => r.hit

\* C11 witness: a natural 20 kept by advantage hits an AC above the total
C11_Witness ==
    /\ Attacked
    /\ last.advantage /\ ~last.disadvantage /\ last.d20[1] # 20
    /\ last.result.critical /\ last.result.hit
    /\ last.result.attack_total < last.result.target_ac

\* the first n die values of a roll
Rolled(faces, n) == SubSeq(faces, 1, n)

\* C12: on a critical hit with damage notation NdM+K the damage is the sum of
\* the 2N die values rolled, each in 1..M, plus K once, which is what
\* roll_damage(notation, is_critical=True) gives for the same 2N values.
C12_CriticalDamage ==
    (Attacked /\ last.result.critical) =>
        LET d == last.result.dice
            n == d.num_dice
            dice == Rolled(last.dmg, n) \o Rolled(last.crit, n)
        IN  /\ Len(dice) = 2 * n
            /\ \A i \in 1..(2 * n) : dice[i] \in 1..d.die_size
            /\ last.result.damage = SumSeq(dice) + d.modifier
            /\ last.result.damage = RollDamage(d, TRUE, dice).total

\* C12 witness: a critical hit with two damage dice, and one with a negative
\* modifier, are both covered; this one has two dice and unequal rolls
C12_Witness ==
    /\ Attacked /\ last.result.critical
    /\ last.result.dice.num_dice = 2
    /\ last.result.dice.modifier # 0
    /\ Rolled(last.dmg, 2) # Rolled(last.crit, 2)

\* hp, conditions and state of every entity but the one named
OthersUnchanged(id) ==
    /\ DOMAIN characters' = DOMAIN characters
    /\ DOMAIN enemies' = DOMAIN enemies
    /\ \A c \in DOMAIN characters : (c # id) => characters'[c] = characters[c]
    /\ \A e \in DOMAIN enemies : (e # id \/ id \in DOMAIN characters) => enemies'[e] = enemies[e]

\* C13: on a miss nothing changes, damage is 0 and target_hp_after equals
\* target_hp_before; on a hit the target's stored hp becomes
\* clamp(target_hp_before - damage, 0, max_hp) = target_hp_after,
\* target_defeated holds iff that is 0, a character falling to 0 becomes
\* unconscious and an enemy falling to 0 dead; no other entity changes.
C13_AttackFrame ==
    [][(last'.op = "resolve_attack" /\ last'.ok) =>
          LET r == last'.result
              t == last'.target
              before == Entity(characters, enemies, t)
              after == Entity(characters', enemies', t)
              lowered == before.hp - r.damage
              clamped == IF lowered < 0 THEN 0
                         ELSE IF lowered > before.max_hp THEN before.max_hp ELSE lowered
          IN  IF ~r.hit
              THEN /\ characters' = characters /\ enemies' = enemies
                   /\ r.damage = 0
                   /\ last'.target_hp_after = r.target_hp_before
              ELSE /\ r.target_hp_before = before.hp
                   /\ after.hp = clamped
                   /\ last'.target_hp_after = after.hp
                   /\ last'.target_defeated <=> last'.target_hp_after = 0
                   /\ (t \in DOMAIN characters /\ before.hp > 0 /\ after.hp = 0)
                         => Contains(after.conditions, "unconscious")
                   /\ (t \notin DOMAIN characters /\ before.hp > 0 /\ after.hp = 0)
                         => after.state = "dead"
                   /\ OthersUnchanged(t)]_vars

\* C13 witness: a hit took a character from above 0 to 0 hp
C13_Witness ==
    /\ Attacked /\ last.result.hit
    /\ last.target \in DOMAIN characters
    /\ last.result.target_hp_before > 0
    /\ last.target_defeated
    /\ Contains(characters[last.target].conditions, "unconscious")

\* C14 as claimed: a hit on a target with hp > 0 by an enemy or a character
\* deals damage > 0 and leaves target_hp_after < target_hp_before.
C14_AsClaimed ==
    (/\ Attacked /\ last.result.hit
     /\ last.attacker \in DOMAIN characters \cup DOMAIN enemies
     /\ last.result.target_hp_before > 0) =>
        /\ last.result.damage > 0
        /\ last.target_hp_after < last.result.target_hp_before

\* C15 as claimed: with an attacker id or a target id that names no entity,
\* resolve_attack returns no AttackResult and changes no hp.
C15_AsClaimed ==
    [][(/\ last'.op = "resolve_attack"
        /\ \/ last'.attacker \notin DOMAIN characters \cup DOMAIN enemies
           \/ last'.target \notin DOMAIN characters \cup DOMAIN enemies) =>
          /\ ~last'.ok
          /\ characters' = characters
          /\ enemies' = enemies]_vars

-----------------------------------------------------------------------------
(* Properties of the failed HP update (SpecHP) and of end_combat           *)
(* (SpecPurge).                                                            *)

ClearedCombat ==
    [active |-> FALSE, round |-> 0, turn_order |-> <<>>,
     current_turn_index |-> 0, combatants |-> EmptyMap]

\* C17: after end_combat, for any reason and from any state, the combat state
\* is the inactive default, no enemy that is not alive remains, every alive
\* enemy and every character is unchanged, and a second end_combat changes
\* nothing.
C17_EndCombatClears ==
    [][last'.op = "end_combat" =>
          /\ combat' = ClearedCombat
          /\ \A e \in DOMAIN enemies' : enemies'[e].state = "alive" /\ enemies'[e].hp > 0
          /\ \A e \in DOMAIN enemies :
                (enemies[e].state = "alive" /\ enemies[e].hp > 0)
                    => (e \in DOMAIN enemies' /\ enemies'[e] = enemies[e])
          /\ characters' = characters
          /\ last.op = "end_combat" =>
                (combat' = combat /\ enemies' = enemies)]_vars

\* C17 witness: end_combat purged an enemy and left another in the store
C17_Witness ==
    /\ last.op = "end_combat"
    /\ last.removed # {}
    /\ DOMAIN enemies # {}
    /\ combat = ClearedCombat

\* C18 as claimed: end_combat removes only dead enemies; every enemy whose
\* state is not 'dead', a fled one included, is still there and unchanged.
C18_AsClaimed ==
    [][last'.op = "end_combat" =>
          \A e \in DOMAIN enemies :
              enemies[e].state # "dead"
                  => (e \in DOMAIN enemies' /\ enemies'[e] = enemies[e])]_vars

-----------------------------------------------------------------------------
(* Properties of the combat state under every combat operation (SpecAll).  *)

\* C19: after any sequence of start_combat, advance_turn, resolve_attack,
\* update_hp, check_combat_end and end_combat from the default world, an
\* inactive combat has round 0 and an empty turn order, and an active one
\* has round >= 1, a non-empty turn order and an index within it.
C19_CombatStateShape ==
    IF combat.active
    THEN /\ combat.round >= 1
         /\ Len(combat.turn_order) >= 1
         /\ combat.current_turn_index >= 0
         /\ combat.current_turn_index < Len(combat.turn_order)
    ELSE /\ combat.round = 0
         /\ combat.turn_order = <<>>

\* C19 witness: an advance wrapped to index 0 of a three-combatant order in
\* round 2, after a combatant was killed
C19_Witness ==
    /\ combat.active /\ combat.round = 2
    /\ Len(combat.turn_order) = 3
    /\ last.op = "advance_turn" /\ last.ok /\ last.is_new_round
    /\ hist.killed # {}

\* C20: between a successful start_combat and the next end_combat or
\* start_combat, advance_turn, resolve_attack, update_hp and
\* check_combat_end never modify combat.turn_order or the combat.combatants
\* snapshot, even when combatants die or are healed.
C20_TurnOrderFixed ==
    [][last'.op \in {"advance_turn", "resolve_attack", "update_hp", "check_combat_end"} =>
          /\ combat'.turn_order = combat.turn_order
          /\ combat'.combatants = combat.combatants]_vars

\* C20 witness: a turn was taken while a killed combatant is still in the
\* turn order, its snapshot still showing the hp it started with
C20_Witness ==
    /\ combat.active
    /\ last.op = "advance_turn" /\ last.ok
    /\ \E id \in hist.killed :
          /\ id \in Range(combat.turn_order)
          /\ combat.combatants[id].hp > 0
          /\ ~StoreAlive(id)

-----------------------------------------------------------------------------
(* Properties of the turn gate (SpecTurn).                                 *)

\* the gate was asked, and it read the stored turn state
GateAsked == last.op = "should_respond"

\* C21: without a message, should_respond(P) of either adapter is true
\* exactly when active_agent is not 'human' and either active_agent is P or
\* the mode is 'free_form' and P is among the addressed agents.
C21_GateQuery ==
    (GateAsked /\ ~last.msg.present) =>
        (last.result <=>
            /\ last.turn_state.active_agent # "human"
            /\ \/ last.turn_state.active_agent = last.agent
               \/ /\ last.turn_state.mode = "free_form"
                  /\ \E i \in 1..Len(last.turn_state.addressed_agents) :
                        last.turn_state.addressed_agents[i] = last.agent)

\* a participant that is addressed in free_form mode, but not active, passes
C21_Witness ==
    /\ GateAsked /\ ~last.msg.present /\ last.result
    /\ last.turn_state.active_agent # last.agent
    /\ last.turn_state.mode = "free_form"

\* C22 as claimed: while active_agent is 'human' neither adapter lets its
\* participant respond, whatever the mode, the addressed agents and the
\* message (a [TURN:x] tag naming the participant included).
C22_AsClaimed ==
    (GateAsked /\ last.turn_state.active_agent = "human") => ~last.result

\* the latest set_turn arguments, with the defaults for the omitted ones
LatestTurnArgs == hist.turns[1]

\* C23: the stored turn state is always the one the latest set_turn call
\* supplied, argument by argument, with (None, 'dm_control', []) for the
\* omitted ones, and every gate check reads exactly that state.
C23_SetTurnWhole ==
    hist.turns # <<>> =>
        LET a == LatestTurnArgs
            whole == [active_agent |-> IF "active_agent" \in a.given
                                       THEN a.active_agent ELSE NoneValue,
                      mode |-> IF "mode" \in a.given THEN a.mode ELSE "dm_control",
                      addressed_agents |-> IF "addressed" \in a.given
                                           THEN a.addressed ELSE <<>>]
        IN  /\ world.turn_state = whole
            /\ (last.op \in {"should_respond", "is_agent_turn"}) => last.turn_state = whole

\* a gate check after a set_turn that omitted the mode and the addressed
\* agents, following a turn state that had both
C23_Witness ==
    /\ GateAsked
    /\ hist.turns # <<>>
    /\ LatestTurnArgs.given = {"active_agent"}
    /\ LatestTurnArgs.mode = "free_form"
    /\ LatestTurnArgs.addressed # <<>>
    /\ world.turn_state.mode = "dm_control"
    /\ world.turn_state.addressed_agents = <<>>

-----------------------------------------------------------------------------
(* Properties of load and save (SpecPersist).                              *)

\* C25 as claimed: when a save is interrupted, the state file holds either
\* the complete new document or the complete document it held before.
C25_AsClaimed ==
    last.op = "save_interrupted" => disk.file \in {last.prior, last.new}

\* the fixed default world: the three party characters, no enemies, the
\* scene 'intro', combat inactive
DefaultWorldHeld ==
    /\ DOMAIN characters = {"human_player", "ai_fighter", "ai_cleric"}
    /\ characters = DefaultCharacters
    /\ DOMAIN enemies = {}
    /\ world.current_scene = "intro"
    /\ ~combat.active

\* C27: load on a state file that cannot be parsed or validated raises
\* nothing and leaves the manager with the default world; load without a
\* state file builds the default world and writes it to the file.
C27_LoadFallsBack ==
    last.op = "load" =>
        /\ last.file \in PersistCorrupt => (~last.raised /\ DefaultWorldHeld)
        /\ ~last.file.exists =>
              /\ ~last.raised
              /\ DefaultWorldHeld
              /\ disk.file = FileOf(DefaultDocument)

\* a JSON list was loaded over a state that was not the default one
C27_Witness ==
    /\ last.op = "load"
    /\ last.file.open = "["
    /\ ~last.raised
    /\ DefaultWorldHeld
    /\ disk.loaded

-----------------------------------------------------------------------------
(* Properties of the store operations (SpecStore).                         *)

\* the operation of the step has returned (update_hp and resolve_attack
\* leave with an exception when ok is false)
Returned(l) ==
    /\ l.op \in {"tool_set", "update_hp", "add_character", "add_enemy", "remove_enemy",
                 "set_progress_flag", "start_combat", "advance_turn", "end_combat",
                 "resolve_attack"}
    /\ l.op \in {"update_hp", "resolve_attack"} => l.ok
    /\ l.op = "resolve_attack" => l.result.hit
    /\ l.op = "set_progress_flag" => ~l.raised

\* C26 as claimed: with auto_save enabled the state file equals the
\* serialization of the in-memory state after each mutating operation
\* returns, and with auto_save disabled none of them writes the file.
C26_AsClaimed ==
    [][Returned(last') =>
          IF disk.auto_save
          THEN disk'.file = FileOf(Document(characters', enemies', combat', world'))
          ELSE disk'.file = disk.file]_vars

\* the operation of the step reached the auto-persist hook: all do, except
\* a set that logged a path error, a remove_enemy of an unknown id, and a
\* start_combat or an advance_turn that failed before any write
ReachedHook(l) ==
    /\ l.op = "tool_set" => l.outcome \in {"set", "ignored"}
    /\ l.op = "remove_enemy" => l.removed
    /\ l.op = "start_combat" => (l.ok \/ l.enemy_ids # <<>>)
    /\ l.op = "advance_turn" => l.ok

\* C26: with auto_save enabled the state file equals the serialization of
\* the in-memory state after each mutating operation that reached the hook
\* returns; with auto_save disabled none of them writes the file, except
\* that the first access to the state of a manager without a state file
\* writes the default world to it.
C26_AutoPersist ==
    [][Returned(last') =>
          IF disk.auto_save
          THEN ReachedHook(last') =>
                  disk'.file = FileOf(Document(characters', enemies', combat', world'))
          ELSE disk'.file = IF disk.loaded \/ disk.file.exists
                            THEN disk.file
                            ELSE FileOf(DefaultDocument)]_vars

\* auto_save is enabled, a set has changed the scene and the file holds it
C26_Witness ==
    /\ last.op = "tool_set"
    /\ last.outcome = "set"
    /\ disk.auto_save
    /\ world.current_scene = "goblin_ambush"
    /\ FieldOr(disk.file.body, "current_scene", "intro") = "goblin_ambush"

\* C28 as claimed: a set whose path does not resolve, or whose last
\* segment the parent object does not have, changes nothing and is
\* answered with an error, not with 'Set <path> = <value>'.
C28_AsClaimed ==
    (last.op = "tool_set" /\ last.outcome # "set") => last.reply # "Set"

\* C29 as claimed: the result of get for a path that leads nowhere differs
\* from its result for turn_state.active_agent while no agent is active.
C29_AsClaimed ==
    (/\ last.op = "tool_get"
     /\ last.path \in StoreMissingPaths
     /\ world.turn_state.active_agent = NoneValue)
        => last.result # Get(StoreOf(characters, enemies, combat, world),
                             <<"turn_state", "active_agent">>)

-----------------------------------------------------------------------------
(* Properties of the progress flags (SpecFlags).                           *)

\* C30 as claimed: after set_flag(n, v), get_flag(n) returns v, for every
\* name n.
C30_AsClaimed ==
    last.op = "set_progress_flag" =>
        GetFlag(world.narrative_progress, last.flag) = [raised |-> FALSE, value |-> last.value]

-----------------------------------------------------------------------------
(* Further properties of resolve_attack (SpecAtk).                         *)

\* C31 as claimed: resolve_attack with advantage and disadvantage both set
\* returns, on the same die values, the AttackResult of the call with
\* neither flag, and its attack_roll is the d20 face rolled.
C31_AsClaimed ==
    [][(/\ last'.op = "resolve_attack" /\ last'.ok
        /\ last'.advantage /\ last'.disadvantage) =>
          /\ last'.result = AttackOutcome(characters, enemies, last'.attacker,
                                          last'.target, last'.weapon, FALSE, FALSE,
                                          last'.d20, last'.dmg, last'.crit)
          /\ last'.result.attack_roll = <<last'.d20[1]>>]_vars

-----------------------------------------------------------------------------
(* Specification of the hp bounds: a manager is constructed on a state     *)
(* file, and hp and max_hp are written through set, add_character,         *)
(* add_enemy, update_hp, start_combat and load.                            *)

BoundsSetCalls ==
    {<<<<"characters", "ai_fighter", "hp">>, 5>>,
     <<<<"characters", "ai_fighter", "hp">>, 99>>,
     <<<<"enemies", "goblin_1", "hp">>, -1>>,
     <<<<"characters", "ai_cleric", "max_hp">>, 3>>}

\* a document of the right shape whose fighter holds more hp than max_hp
BoundsOverfullDocument ==
    Document([DefaultCharacters EXCEPT !["ai_fighter"].hp = 40], EmptyMap,
             DefaultCombat, DefaultWorld)

BoundsHireling == [DefaultCharacters["ai_cleric"] EXCEPT !.hp = 30]

BoundsGhoul == [NewEnemy("goblin", "ghoul_1") EXCEPT !.hp = -2]

InitBounds ==
    /\ \E f \in {NoFile, FileOf(DefaultDocument), FileOf(BoundsOverfullDocument)} :
          /\ disk = [auto_save |-> TRUE, loaded |-> FALSE, saving |-> FALSE, file |-> f]
          /\ characters = LoadOutcome(f).state.characters
          /\ enemies = LoadOutcome(f).state.enemies
          /\ combat = LoadOutcome(f).state.combat
          /\ world = LoadOutcome(f).state.world
    /\ last = [op |-> "init"]
    /\ responding = {}
    /\ hist = HistInit(characters)

NextBounds ==
    \/ Load
    \/ \E call \in BoundsSetCalls : ToolSet(call[1], call[2])
    \/ UpdateHp("ai_fighter", -FullDelta)
    \/ AddCharacter("hireling", BoundsHireling)
    \/ AddEnemy("ghoul_1", BoundsGhoul)
    \/ (~combat.active
        /\ StartAny({<<"ai_fighter">>}, {<<"goblin_1">>}, {"goblin"}, TurnFaces))

SpecBounds == InitBounds /\ [][NextBounds]_vars

-----------------------------------------------------------------------------
(* Properties of the hp bounds (SpecBounds).                               *)

\* C32 as claimed: after every store mutation (set, add_character,
\* add_enemy, update_hp, start_combat, load) every character and every
\* enemy has 0 <= hp <= max_hp.
C32_AsClaimed ==
    last.op # "init" =>
        /\ \A c \in DOMAIN characters :
              0 <= characters[c].hp /\ characters[c].hp <= characters[c].max_hp
        /\ \A e \in DOMAIN enemies :
              0 <= enemies[e].hp /\ enemies[e].hp <= enemies[e].max_hp

-----------------------------------------------------------------------------
(* Specification of the current combatant: encounters are started,         *)
(* advanced, switched off and on through set and ended, the turn index is  *)
(* set to values outside the turn order, and both queries are called.      *)

WhoIndexValues == {-1, 4}

NextWho ==
    \/ StartAny({<<"ai_fighter", "human_player">>}, {<<"goblin_1">>}, {"goblin"}, TurnFaces)
    \/ (combat.round < MaxRound /\ AdvanceTurn)
    \/ \E value \in BOOLEAN : SetCombatActive(value)
    \/ \E i \in WhoIndexValues : ToolSet(<<"combat", "current_turn_index">>, i)
    \/ \E reason \in {"normal"} : EndCombat(reason)
    \/ GetCurrentCombatantQuery
    \/ CombatStateQuery

SpecWho == Init /\ [][NextWho]_vars

-----------------------------------------------------------------------------
(* Properties of the current combatant (SpecWho).                          *)

\* the value the specification gives: the id at
\* turn_order[current_turn_index mod len(turn_order)], or none
CurrentCombatantExpected ==
    IF combat.active /\ Len(combat.turn_order) > 0
    THEN combat.turn_order[(combat.current_turn_index % Len(combat.turn_order)) + 1]
    ELSE NoneValue

\* C33: in every state the engine-level and the model-level
\* get_current_combatant give the same value,
\* turn_order[current_turn_index mod len(turn_order)] when combat is active
\* and the turn order is not empty and none otherwise; a call returns that
\* value and changes nothing of the world state.
C33_CurrentCombatant ==
    /\ [](/\ GetCurrentCombatant(combat) = CombatStateGetCurrentCombatant(combat)
          /\ GetCurrentCombatant(combat) = CurrentCombatantExpected)
    /\ [][last'.op = "get_current_combatant" =>
            /\ last'.result = CurrentCombatantExpected
            /\ UNCHANGED <<characters, enemies, combat, world>>]_vars

\* C33 witness: the engine-level query answered none for an inactive
\* combat that still holds a turn order
C33_Witness ==
    /\ last.op = "get_current_combatant" /\ last.level = "engine"
    /\ ~combat.active /\ Len(combat.turn_order) > 0
    /\ last.result = NoneValue

-----------------------------------------------------------------------------
(* Further properties of the encounter (SpecAll).                          *)

\* the walk of a successful advance_turn wrapped past index 0: the new
\* index is below the previous one, or equal to it in a turn order of more
\* than one combatant
Wrapped ==
    \/ combat'.current_turn_index < combat.current_turn_index
    \/ /\ combat'.current_turn_index = combat.current_turn_index
       /\ Len(combat.turn_order) > 1

\* C34: a successful advance_turn adds exactly 1 to combat.round and
\* returns is_new_round = true when the walk wrapped past index 0, and
\* otherwise leaves the round alone and returns is_new_round = false; the
\* round_number it returns is the stored round, and update_hp,
\* resolve_attack and check_combat_end leave the round alone, so the round
\* never decreases during an encounter and grows by at most 1 per call.
C34_RoundOnWrap ==
    [][/\ (last'.op = "advance_turn" /\ last'.ok) =>
             /\ last'.is_new_round <=> Wrapped
             /\ combat'.round = IF Wrapped THEN combat.round + 1 ELSE combat.round
             /\ last'.round = combat'.round
       /\ last'.op \in {"update_hp", "resolve_attack", "check_combat_end"} =>
             combat'.round = combat.round]_vars

\* C34 witness: an advance that passed over a dead combatant began round 2
C34_Witness ==
    /\ last.op = "advance_turn" /\ last.ok
    /\ last.is_new_round /\ last.attempts > 0
    /\ combat.round = 2 /\ last.round = 2


\* the position d steps after the current one in cyclic order (0-based)
PositionAfter(d) == (combat.current_turn_index + d) % Len(combat.turn_order)

\* the combatant at a 0-based position is alive in the store
AliveAt(pos) == StoreAlive(combat.turn_order[pos + 1])

\* C35: a successful advance_turn sets current_turn_index to the first
\* position after the previous one in cyclic order, the previous position
\* coming last, whose combatant is alive in the store when the call is
\* made; it returns that combatant, and every position it passed over
\* holds a combatant that is not alive in the store.
C35_FirstAliveAfter ==
    [][(last'.op = "advance_turn" /\ last'.ok) =>
          /\ last'.id = combat.turn_order[combat'.current_turn_index + 1]
          /\ AliveAt(combat'.current_turn_index)
          /\ \E d \in 1..Len(combat.turn_order) :
                /\ combat'.current_turn_index = PositionAfter(d)
                /\ last'.attempts = d - 1
                /\ \A e \in 1..(d - 1) : ~AliveAt(PositionAfter(e))]_vars

\* C35 witness: an advance came back to the combatant it started from,
\* every other one being down in the store while the snapshot taken at the
\* start of combat still shows them standing
C35_Witness ==
    /\ last.op = "advance_turn" /\ last.ok
    /\ Len(combat.turn_order) > 1
    /\ last.attempts = Len(combat.turn_order) - 1
    /\ \A id \in Range(combat.turn_order) \ {last.id} :
          ~StoreAlive(id) /\ combat.combatants[id].hp > 0

-----------------------------------------------------------------------------
(* Specification of the fumble: one resolve_attack call on the default     *)
(* party, a goblin and an enemy of armor class 6 put into the store by     *)
(* add_enemy.                                                              *)

FumbleCube == [NewEnemy("goblin", "cube_1") EXCEPT !.name = "Gelatinous Cube", !.ac = 6]

InitFumble ==
    /\ characters = DefaultCharacters
    /\ enemies = Put(AtkEnemies, "cube_1", FumbleCube)
    /\ combat = DefaultCombat
    /\ world = DefaultWorld
    /\ disk = DiskInSync(characters, enemies, combat, world)
    /\ last = [op |-> "init"]
    /\ responding = {}
    /\ hist = HistInit(characters)

NextFumble ==
    /\ last.op = "init"
    /\ \E a \in {"ai_fighter", "human_player", "goblin_1"},
          t \in {"cube_1", "goblin_1", "ai_fighter"},
          adv \in BOOLEAN, dis \in BOOLEAN, d20 \in AtkD20 :
            ResolveAttack(a, t, "longsword", adv, dis, d20, <<4, 3>>, <<2, 4>>)

SpecFumble == InitFumble /\ [][NextFumble]_vars

-----------------------------------------------------------------------------
(* Properties of the fumble (SpecFumble).                                  *)

\* C36 as claimed: whenever resolve_attack returns fumble = true, hit is
\* false, damage is 0 and the target's hp is unchanged.
C36_AsClaimed ==
    (Attacked /\ last.result.fumble) =>
        /\ ~last.result.hit
        /\ last.result.damage = 0
        /\ last.target_hp_after = last.result.target_hp_before

-----------------------------------------------------------------------------
(* Properties of the start of an encounter (Spec).                         *)

\* C37 as claimed: right after a successful start_combat the current
\* combatant, turn_order[0], is alive in the store.
C37_AsClaimed ==
    (last.op = "start_combat" /\ last.ok) =>
        /\ GetCurrentCombatant(combat) = combat.turn_order[1]
        /\ StoreAlive(combat.turn_order[1])

-----------------------------------------------------------------------------
(* The sequence of turns (SpecAll).                                        *)

\* every combatant of the turn order is alive in the store
AllCombatantsAlive == \A id \in Range(combat.turn_order) : StoreAlive(id)

\* C38: while every combatant stays alive, the k-th advance_turn after
\* start_combat lands on turn_order[k mod n], n = len(turn_order) (counted
\* here up to k = n, the return to the first combatant); and an advance
\* made while every combatant is alive moves to the next position of the
\* turn order in cyclic sequence, so that every other combatant gets
\* exactly one turn between two turns of the same combatant.
C38_TurnSequence ==
    /\ []((/\ combat.active /\ hist.advances >= 1
           /\ last.op = "advance_turn" /\ last.ok)
            => /\ last.id = combat.turn_order[(hist.advances % Len(combat.turn_order)) + 1]
               /\ GetCurrentCombatant(combat) = last.id)
    /\ [][(last'.op = "advance_turn" /\ last'.ok /\ AllCombatantsAlive) =>
            /\ combat'.current_turn_index
                 = (combat.current_turn_index + 1) % Len(combat.turn_order)
            /\ last'.id = combat.turn_order[combat'.current_turn_index + 1]]_vars

\* C38 witness: with three combatants alive throughout, the third advance
\* came back to the first of the turn order
C38_Witness ==
    /\ combat.active /\ Len(combat.turn_order) = 3
    /\ hist.advances = 3
    /\ last.op = "advance_turn" /\ last.ok
    /\ last.id = combat.turn_order[1]
    /\ AllCombatantsAlive

-----------------------------------------------------------------------------
(* Further properties of the turn gate (SpecTurn).                         *)

\* the agent ids is_agent_turn is asked about
TurnAgentIds == GatePlayers \cup {NpcAgentId, "vex", "human"}

\* the agents whose turn it is in the stored turn state
AgentsOnTurn == {P \in TurnAgentIds : IsAgentTurn(world.turn_state, P)}

\* C39: in every turn state whose mode is not 'free_form' at most one
\* agent id P satisfies is_agent_turn(P), whatever addressed_agents holds,
\* and none does when active_agent is null.
C39_OneAgentOnTurn ==
    world.turn_state.mode # "free_form" =>
        /\ Cardinality(AgentsOnTurn) <= 1
        /\ AgentsOnTurn \subseteq {world.turn_state.active_agent}
        /\ world.turn_state.active_agent = NoneValue => AgentsOnTurn = {}

\* C39 witness: in combat mode with two agents addressed, one of them
\* active, only the active one is on turn
C39_Witness ==
    /\ world.turn_state.mode = "combat"
    /\ world.turn_state.active_agent = "thokk"
    /\ world.turn_state.addressed_agents = <<"thokk", "npc">>
    /\ AgentsOnTurn = {"thokk"}
    /\ last.op = "is_agent_turn" /\ last.agent = "npc" /\ ~last.result

-----------------------------------------------------------------------------
(* Specification of the response gate under interleaving: the DM sets the  *)
(* turn at any moment, each participant handles one message at a time,     *)
(* and a handler that passed its gate finishes at any later moment.        *)

CascadeInputs ==
    [given : {{"active_agent", "mode", "addressed"}},
     active_agent : GateActives, mode : GateModes, addressed : GateAddressed]

CascadeMessages ==
    {[present |-> TRUE, turn_tag |-> NoneValue, mentioned |-> m] : m \in {{}, {"thokk"}}}

NextCascade ==
    \/ \E input_args \in CascadeInputs : SetTurn(input_args)
    \/ \E agent_id \in GatePlayers, msg \in CascadeMessages : PlayerOnMessage(agent_id, msg)
    \/ \E msg \in CascadeMessages : NpcOnMessage(msg)
    \/ \E agent_id \in GatePlayers \cup {NpcAgentId} : ResponseDone(agent_id)

SpecCascade == Init /\ [][NextCascade]_vars

-----------------------------------------------------------------------------
(* Properties of the response gate under interleaving (SpecCascade).       *)

\* the stored turn state lets the participant pass its gate on some message
PermitsNow(agent_id) ==
    \E msg \in GateMessages :
        IF agent_id = NpcAgentId THEN NpcShouldRespond(world.turn_state, msg)
        ELSE PlayerShouldRespond(agent_id, world.turn_state, msg)

\* C40 as claimed: no participant is between its gate and the end of its
\* response while the turn state no longer permits it to act, and outside
\* free_form mode at most one AI participant is producing a response.
C40_AsClaimed ==
    /\ \A agent_id \in responding : PermitsNow(agent_id)
    /\ world.turn_state.mode # "free_form" => Cardinality(responding) <= 1

====
